---- MODULE Spec2Model ----
(***************************************************************************)
(* envdiff: layered configuration resolution (envdiff/analysis.py,         *)
(* load_config) and the analysis run over one container                    *)
(* (envdiff/analysis.py run_analysis, envdiff/container.py).               *)
(*                                                                         *)
(* Paths are sequences of components; an absolute path starts with "/".    *)
(* A YAML value is a tagged record: S(v) a scalar, L(v) a sequence,        *)
(* D(v) a mapping (a function from keys to values).                        *)
(***************************************************************************)
EXTENDS Integers, Sequences, FiniteSets, TLC

VARIABLES
    files,        \* host filesystem: configuration file path -> document
    config_path,  \* the path handed to load_config / run_analysis
    pc,           \* position of the caller
    loaded,       \* what load_config returned or raised
    container_id, \* ContainerManager.container_id
    idx,          \* index of the loop the run is in
    polls,        \* readiness polls made by ContainerManager.start
    exc,          \* the exception propagating out of the run, "none" if none
    report,       \* output_data
    base_out,     \* cmd_outputs_base: file name -> command whose output it holds
    after_out,    \* cmd_outputs_after: file name -> command whose output it holds
    written,      \* number of times the report file was written
    trace,        \* history: what the run did so far, in order
    args,         \* arguments and tool output of a call of a function checked on its own
    ret           \* what that call returned

runvars == <<container_id, idx, polls, exc, report, base_out, after_out, written, trace, args, ret>>

vars == <<files, config_path, pc, loaded, runvars>>

----------------------------------------------------------------------------
(* Bounds *)

\* Depth of nested load_config calls after which the interpreter gives up
\* (stands for the interpreter's recursion limit).
MaxDepth == 5

\* Number of entries in a text of the comparison tool.
MaxEntries == 3

----------------------------------------------------------------------------
(* Program constants *)

\* ContainerManager.start(timeout=30)
StartTimeout == 30

----------------------------------------------------------------------------
(* YAML values *)

S(v) == [k |-> "scalar", v |-> v]
L(v) == [k |-> "list", v |-> v]
D(v) == [k |-> "dict", v |-> v]

EmptyDict == <<>>

IsList(d, key) == key \in DOMAIN d /\ d[key].k = "list"
IsDict(d, key) == key \in DOMAIN d /\ d[key].k = "dict"
IsScalar(d, key) == key \in DOMAIN d /\ d[key].k = "scalar"

\* dict.pop(key, None)
Pop(d, key) == [x \in DOMAIN d \ {key} |-> d[x]]

\* d[key] = value
Put(d, key, value) == [x \in DOMAIN d \cup {key} |-> IF x = key THEN value ELSE d[x]]

----------------------------------------------------------------------------
(* Paths: pathlib.Path and os.path on a POSIX host *)

Root == <<"/">>

\* The symbolic links of the host: link path -> the directory it points to.
Symlinks == (<<"/", "cur">> :> <<"/", "lib", "v1">>)

\* The working directory of the process (os.getcwd(), always physical).
Cwd == <<"/", "proj">>

IsAbsolute(p) == Len(p) > 0 /\ p[1] = "/"

\* base / p
Join(base, p) == IF IsAbsolute(p) THEN p ELSE base \o p

\* p.parent (lexical; the parent of "c.yaml" is ".", the empty relative path)
Parent(p) ==
    IF Len(p) = 0 \/ p = Root THEN p ELSE SubSeq(p, 1, Len(p) - 1)

\* p.name
Name(p) == IF Len(p) = 0 \/ p = Root THEN "" ELSE p[Len(p)]

RECURSIVE PhysWalk(_, _)
\* Walks `rest` from the physical directory `cur` the way the kernel does:
\* a symbolic link is followed when it is met, ".." is taken in the directory
\* the walk is actually in.
PhysWalk(cur, rest) ==
    IF rest = <<>> THEN cur
    ELSE LET comp == Head(rest)
             nxt == cur \o <<comp>>
         IN  IF comp = ".." THEN PhysWalk(Parent(cur), Tail(rest))
             ELSE IF nxt \in DOMAIN Symlinks THEN PhysWalk(Symlinks[nxt], Tail(rest))
             ELSE PhysWalk(nxt, Tail(rest))

\* Path.resolve(): absolute, symbolic links and ".." resolved physically.
Resolve(p) == PhysWalk(Root, Tail(Join(Cwd, p)))

RECURSIVE LexWalk(_, _)
\* os.path.normpath on an absolute path: ".." removes the component before
\* it in the text, whatever that component is on disk.
LexWalk(cur, rest) ==
    IF rest = <<>> THEN cur
    ELSE IF Head(rest) = ".." THEN LexWalk(Parent(cur), Tail(rest))
    ELSE LexWalk(cur \o <<Head(rest)>>, Tail(rest))

\* os.path.abspath(p)
AbsPath(p) == LexWalk(Root, Tail(Join(Cwd, p)))

RECURSIVE CommonLen(_, _)
CommonLen(a, b) ==
    IF a = <<>> \/ b = <<>> \/ Head(a) # Head(b) THEN 0
    ELSE 1 + CommonLen(Tail(a), Tail(b))

\* os.path.relpath(path, start); "." is the empty relative path
RelPath(path, start) ==
    LET start_list == AbsPath(start)
        path_list == AbsPath(path)
        i == CommonLen(start_list, path_list)
    IN  [n \in 1..(Len(start_list) - i) |-> ".."]
            \o SubSeq(path_list, i + 1, Len(path_list))

----------------------------------------------------------------------------
(* envdiff/analysis.py: configuration resolution *)

RECURSIVE _merge_dicts(_, _)

RECURSIVE _merge_dicts_prepend(_, _)
\* _merge_dicts with `value + existing` for sequences
_merge_dicts_prepend(base, new) ==
    [key \in DOMAIN base \cup DOMAIN new |->
        IF key \notin DOMAIN new THEN base[key]
        ELSE LET value == new[key] IN
            IF value.k = "list"
            THEN IF IsList(base, key)
                 THEN L(value.v \o base[key].v)
                 ELSE L(value.v)
            ELSE IF value.k = "dict"
            THEN IF IsDict(base, key)
                 THEN D(_merge_dicts_prepend(base[key].v, value.v))
                 ELSE D(_merge_dicts_prepend(EmptyDict, value.v))
            ELSE value]

\* _merge_dicts with a mapping of `new` replacing whatever `base` holds
_merge_dicts_shallow(base, new) ==
    [key \in DOMAIN base \cup DOMAIN new |->
        IF key \notin DOMAIN new THEN base[key]
        ELSE LET value == new[key] IN
            IF value.k = "list" /\ IsList(base, key)
            THEN L(base[key].v \o value.v)
            ELSE value]

\* Merge `new` into `base`: sequences append, mappings merge recursively,
\* anything else replaces.
_merge_dicts(base, new) ==
    [key \in DOMAIN base \cup DOMAIN new |->
        IF key \notin DOMAIN new THEN base[key]
        ELSE LET value == new[key] IN
            IF value.k = "list"
            THEN IF IsList(base, key)
                 THEN L(base[key].v \o value.v)
                 ELSE L(value.v)
            ELSE IF value.k = "dict"
            THEN IF IsDict(base, key)
                 THEN D(_merge_dicts(base[key].v, value.v))
                 ELSE D(_merge_dicts(EmptyDict, value.v))
            ELSE value]

\* The rewritten "src" of one copy_files entry: resolved against base_dir,
\* stored relative to root_dir; an absolute src is left alone.
RewriteSrc(src, base_dir, root_dir) ==
    IF IsAbsolute(src) THEN src
    ELSE LET abs_path == Resolve(Join(base_dir, src))
         IN  RelPath(abs_path, root_dir)

\* _resolve_relative_paths(config, base_dir, root_dir): the document with the
\* src of every prepare.copy_files entry rewritten in place.
_resolve_relative_paths(config, base_dir, root_dir) ==
    IF IsDict(config, "prepare") /\ IsList(config["prepare"].v, "copy_files")
    THEN LET prepare == config["prepare"].v
             copy_files == prepare["copy_files"].v
             rewritten == [i \in 1..Len(copy_files) |->
                 [copy_files[i] EXCEPT
                     !.src = RewriteSrc(copy_files[i].src, base_dir, root_dir)]]
         IN  Put(config, "prepare", D(Put(prepare, "copy_files", L(rewritten))))
    ELSE config

RECURSIVE DedupFrom(_, _, _, _)
DedupFrom(seq, i, seen, result) ==
    IF i > Len(seq) THEN result
    ELSE IF seq[i] \notin seen
         THEN DedupFrom(seq, i + 1, seen \cup {seq[i]}, Append(result, seq[i]))
         ELSE DedupFrom(seq, i + 1, seen, result)

\* _dedup keeping the last occurrence of every item instead of the first
_dedup_last(seq) ==
    LET keep == {i \in 1..Len(seq) : \A j \in (i + 1)..Len(seq) : seq[j] # seq[i]}
        RECURSIVE Take(_)
        Take(i) == IF i > Len(seq) THEN <<>>
                   ELSE IF i \in keep THEN <<seq[i]>> \o Take(i + 1)
                   ELSE Take(i + 1)
    IN  Take(1)

\* load_config._dedup: keeps the first occurrence of every item
_dedup(seq) == DedupFrom(seq, 1, {}, <<>>)

\* DedupKeys with command_diff among the keys
DedupKeys_and_command_diff == <<"target_dirs", "exclude_paths", "omit_diff_paths", "command_diff">>

DedupKeys == <<"target_dirs", "exclude_paths", "omit_diff_paths">>

RECURSIVE DedupAll(_, _)
\* for key in ("target_dirs", "exclude_paths", "omit_diff_paths"): ...
DedupAll(combined, i) ==
    IF i > Len(DedupKeys) THEN combined
    ELSE LET key == DedupKeys[i] IN
         IF IsList(combined, key)
         THEN DedupAll(Put(combined, key, L(_dedup(combined[key].v))), i + 1)
         ELSE DedupAll(combined, i + 1)

\* A title is a sequence of text tokens, "\n" being a line break.
\* " ".join(title.splitlines()): every line break between two lines becomes
\* one space, the line break that ends the text disappears.
JoinLines(title) ==
    LET n == IF Len(title) > 0 /\ title[Len(title)] = "\n"
             THEN Len(title) - 1 ELSE Len(title)
    IN  [i \in 1..n |-> IF title[i] = "\n" THEN " " ELSE title[i]]

CollapseTitle(combined) ==
    IF IsScalar(combined, "title")
    THEN Put(combined, "title", S(JoinLines(combined["title"].v)))
    ELSE combined

\* The outcome of a call: a returned configuration or a raised exception.
Returned(cfg) == [ok |-> TRUE, cfg |-> cfg]
Raised(error) == [ok |-> FALSE, exc |-> error]

\* config_path.is_file()
is_file(fs, p) == Resolve(p) \in DOMAIN fs /\ fs[Resolve(p)].kind # "missing"

\* extends_list = config.get("extends", []); a bare string is one entry
ExtendsList(config) ==
    IF "extends" \notin DOMAIN config THEN <<>>
    ELSE IF config["extends"].k = "scalar" THEN <<config["extends"].v>>
    ELSE config["extends"].v

\* ext_path of one extends entry of the document at config_path
ExtPath(config_path_, ext) == Resolve(Join(Parent(config_path_), ext))

\* Sentinel for _root_dir=None
None == <<"<None>">>

\* MergeCurrent with the accumulator merged over the document
MergeCurrent_under(combined, config) == _merge_dicts(Pop(config, "extends"), combined)

\* MergeCurrent without config.pop("extends", None)
MergeCurrent_keep_extends(combined, config) == _merge_dicts(combined, config)

\* config.pop("extends", None); combined = _merge_dicts(combined, config)
MergeCurrent(combined, config) == _merge_dicts(combined, Pop(config, "extends"))

RECURSIVE load_config_in(_, _, _, _)
RECURSIVE MergeExtends(_, _, _, _, _, _, _)

\* MergeExtends with a failing base skipped instead of propagated
MergeExtends_skip_failed(fs, extends_list, i, combined, config_path_, root_dir, depth) ==
    IF i > Len(extends_list) THEN Returned(combined)
    ELSE LET ext_path == ExtPath(config_path_, extends_list[i])
             extended_cfg == load_config_in(fs, ext_path, root_dir, depth + 1)
         IN  MergeExtends(fs, extends_list, i + 1,
                          IF extended_cfg.ok
                          THEN _merge_dicts(combined, extended_cfg.cfg)
                          ELSE combined,
                          config_path_, root_dir, depth)

\* for ext in extends_list: combined = _merge_dicts(combined, load_config(ext_path))
\* An exception raised by a nested load_config ends the loop and propagates.
MergeExtends(fs, extends_list, i, combined, config_path_, root_dir, depth) ==
    IF i > Len(extends_list) THEN Returned(combined)
    ELSE LET ext_path == ExtPath(config_path_, extends_list[i])
             extended_cfg == load_config_in(fs, ext_path, root_dir, depth + 1)
         IN  IF ~extended_cfg.ok THEN extended_cfg
             ELSE MergeExtends(fs, extends_list, i + 1,
                               _merge_dicts(combined, extended_cfg.cfg),
                               config_path_, root_dir, depth)

\* load_config_in that gives up quietly where the nesting ends: an empty
\* configuration instead of a failure
load_config_in_cut(fs, config_path_, _root_dir, depth) ==
    IF depth > MaxDepth THEN Returned(EmptyDict)
    ELSE IF ~is_file(fs, config_path_) THEN Raised("FileNotFoundError")
    ELSE LET doc == fs[Resolve(config_path_)] IN
        IF doc.kind = "malformed" THEN Raised("YAMLError")
        ELSE LET root_dir == IF _root_dir = None THEN Parent(config_path_) ELSE _root_dir
                 config == _resolve_relative_paths(doc.cfg, Parent(config_path_), root_dir)
                 ext == MergeExtends(fs, ExtendsList(config), 1, EmptyDict,
                                     config_path_, root_dir, depth)
             IN  IF ~ext.ok THEN ext
                 ELSE LET combined == MergeCurrent(ext.cfg, config)
                      IN  Returned(DedupAll(CollapseTitle(combined), 1))

\* load_config(config_path, _root_dir=...) at nesting depth `depth`
load_config_in(fs, config_path_, _root_dir, depth) ==
    IF depth > MaxDepth THEN Raised("RecursionError")
    ELSE IF ~is_file(fs, config_path_) THEN Raised("FileNotFoundError")
    ELSE LET doc == fs[Resolve(config_path_)] IN
        IF doc.kind = "malformed" THEN Raised("YAMLError")
        ELSE LET root_dir == IF _root_dir = None THEN Parent(config_path_) ELSE _root_dir
                 config == _resolve_relative_paths(doc.cfg, Parent(config_path_), root_dir)
                 ext == MergeExtends(fs, ExtendsList(config), 1, EmptyDict,
                                     config_path_, root_dir, depth)
             IN  IF ~ext.ok THEN ext
                 ELSE LET combined == MergeCurrent(ext.cfg, config)
                      IN  Returned(DedupAll(CollapseTitle(combined), 1))

\* load_config(config_path)
load_config(fs, config_path_) == load_config_in(fs, config_path_, None, 0)

----------------------------------------------------------------------------
(* The host's configuration files *)

PC == <<"/", "proj", "c.yaml">>
PD == <<"/", "proj", "d.yaml">>
PP == <<"/", "proj", "base", "p.yaml">>
PG == <<"/", "lib", "v1", "g.yaml">>

Slots == {PC, PD, PP, PG}

Entry(src, dest) == [src |-> src, dest |-> dest]

BodyA == ("a" :> S("1")) @@ ("list" :> L(<<"1">>))

BodyB == ("list" :> L(<<"2">>)) @@ ("b" :> S("3"))

BodyT ==
    ("a" :> S("2"))
    @@ ("b" :> S("0"))
    @@ ("title" :> S(<<"line1", "\n", "line2", "\n">>))
    @@ ("target_dirs" :> L(<<"/etc", "/etc", "/usr">>))
    @@ ("omit_diff_paths" :> L(<<"log">>))
    @@ ("prepare" :> D(("commands" :> L(<<"x", "x">>))
                       @@ ("copy_files" :> L(<<Entry(<<"f.txt">>, "/d")>>))))

BodyU ==
    ("base_image" :> S("img"))
    @@ ("title" :> S(<<"one">>))
    @@ ("target_dirs" :> L(<<"/usr", "/opt", "/etc">>))
    @@ ("exclude_paths" :> L(<<"tmp", "tmp">>))
    @@ ("prepare" :> D(("commands" :> L(<<"y", "x">>))
                       @@ ("copy_files" :> L(<<Entry(<<"..", "f.txt">>, "/e"),
                                               Entry(<<"/", "opt", "k">>, "/k")>>))))

\* the same keys holding other kinds of value
BodyM ==
    ("a" :> L(<<"9">>))
    @@ ("list" :> S("s"))
    @@ ("target_dirs" :> S("/one"))
    @@ ("prepare" :> S("none"))

Mapping(ext, body) == [kind |-> "mapping", cfg |-> ext @@ body]
Extends(v) == ("extends" :> v)
NoExtends == EmptyDict
Missing == [kind |-> "missing"]
Malformed == [kind |-> "malformed"]

\* What each file may hold: a mapping made of one extends form and one body,
\* or nothing, or text that is no YAML.
ExtsC ==
    << NoExtends,
       Extends(S(<<"d.yaml">>)),
       Extends(L(<<<<"d.yaml">>, <<"base", "p.yaml">>>>)),
       Extends(L(<<<<"base", "p.yaml">>, <<"d.yaml">>>>)),
       Extends(L(<<<<"base", "p.yaml">>>>)),
       Extends(L(<<<<"nope.yaml">>>>)) >>
BodiesC == <<BodyB, BodyT, BodyM>>
OthersC == <<Malformed>>

ExtsD == << NoExtends, Extends(L(<<<<"base", "p.yaml">>>>)) >>
BodiesD == <<BodyA, BodyU>>
OthersD == <<Missing>>

ExtsP ==
    << NoExtends,
       Extends(S(<<"..", "..", "lib", "v1", "g.yaml">>)),
       Extends(L(<<<<"..", "c.yaml">>>>)) >>
BodiesP == <<BodyA, BodyT, BodyU>>
OthersP == <<Missing, Malformed>>

ExtsG == << NoExtends, Extends(S(<<"g.yaml">>)) >>
BodiesG == <<BodyA, BodyU, BodyM>>
OthersG == <<Missing>>

\* The choices of one file: <<e, b>> a mapping, <<o, 0>> one of the others
Choices(exts, bodies, others) ==
    ((1..Len(exts)) \X (1..Len(bodies))) \cup ((1..Len(others)) \X {0})

Doc(exts, bodies, others, ch) ==
    IF ch[2] = 0 THEN others[ch[1]] ELSE Mapping(exts[ch[1]], bodies[ch[2]])

\* The paths a caller asks for: absolute, relative to the working directory,
\* through the symbolic link /cur, inside a subdirectory.
Requests ==
    { PC, <<"c.yaml">>, <<"/", "cur", "g.yaml">>, PP }

NoReport ==
    [ started |-> FALSE,
      metadata |-> {},
      definitions |-> {},
      main_operation_results |-> <<>>,
      filesystem_rq |-> "null",
      filesystem_urN |-> "null",
      command_outputs |-> <<>> ]

\* The run's own state before run_analysis is entered.
\* No run is under way.
NoRun ==
    /\ container_id = "None"
    /\ idx = 0
    /\ polls = 0
    /\ exc = "none"
    /\ report = NoReport
    /\ base_out = <<>>
    /\ after_out = <<>>
    /\ written = 0
    /\ trace = <<>>

\* No function is called on its own.
NoCall ==
    /\ args = <<>>
    /\ ret = <<>>

RunIdle == NoRun /\ NoCall

----------------------------------------------------------------------------
(* Specification of configuration resolution: one call of load_config on a
   filesystem drawn from the documents above *)

InitConfig ==
    /\ \E c \in Choices(ExtsC, BodiesC, OthersC),
          d \in Choices(ExtsD, BodiesD, OthersD),
          p \in Choices(ExtsP, BodiesP, OthersP),
          g \in Choices(ExtsG, BodiesG, OthersG) :
          files = (PC :> Doc(ExtsC, BodiesC, OthersC, c))
                  @@ (PD :> Doc(ExtsD, BodiesD, OthersD, d))
                  @@ (PP :> Doc(ExtsP, BodiesP, OthersP, p))
                  @@ (PG :> Doc(ExtsG, BodiesG, OthersG, g))
    /\ config_path = None
    /\ pc = "idle"
    /\ loaded = Raised("none")
    /\ RunIdle

\* result = load_config(path)
LoadConfig ==
    /\ pc = "idle"
    /\ \E path \in Requests :
          /\ config_path' = path
          /\ loaded' = load_config(files, path)
    /\ pc' = "loaded"
    /\ UNCHANGED <<files, runvars>>

NextConfig == LoadConfig

SpecConfig == InitConfig /\ [][NextConfig]_vars

----------------------------------------------------------------------------
(* What the claims speak about *)

\* The call returned a configuration.
Loaded == pc = "loaded" /\ loaded.ok

\* The requested document as parsed, when it is a mapping.
RootIsMapping == is_file(files, config_path) /\ files[Resolve(config_path)].kind = "mapping"
RootDoc == files[Resolve(config_path)].cfg
RootDir == Parent(config_path)

\* The extends entries of the requested document and the effective
\* configuration of each, resolved within the same chain.
RootExtends == ExtendsList(RootDoc)
BaseEff(i) == load_config_in(files, ExtPath(config_path, RootExtends[i]), RootDir, 1).cfg

\* The requested document without its extends key.
Current == Pop(RootDoc, "extends")

\* Equality of two YAML values, the kind compared first.
RECURSIVE SameValue(_, _)
SameValue(x, y) ==
    /\ x.k = y.k
    /\ IF x.k = "dict"
       THEN /\ DOMAIN x.v = DOMAIN y.v
            /\ \A key \in DOMAIN x.v : SameValue(x.v[key], y.v[key])
       ELSE x.v = y.v

SameDict(x, y) == SameValue(D(x), D(y))

IsDedupKey(key) == \E i \in 1..Len(DedupKeys) : DedupKeys[i] = key

\* The distinct elements of a sequence in first-occurrence order.
FirstOccurrences(seq) ==
    LET keep == {i \in 1..Len(seq) : \A j \in 1..(i - 1) : seq[j] # seq[i]}
        RECURSIVE Take(_)
        Take(i) == IF i > Len(seq) THEN <<>>
                   ELSE IF i \in keep THEN <<seq[i]>> \o Take(i + 1)
                   ELSE Take(i + 1)
    IN  Take(1)

NoDuplicates(seq) == \A i, j \in 1..Len(seq) : seq[i] = seq[j] => i = j

\* What load_config makes of a value that only the requested document
\* defines: a title is put on one line, a de-duplicated list loses its
\* repeats, everything else is kept as written.
KeptAs(key, given, got) ==
    IF key = "title" /\ given.k = "scalar"
    THEN got.k = "scalar" /\ got.v = JoinLines(given.v)
    ELSE IF IsDedupKey(key) /\ given.k = "list"
    THEN got.k = "list" /\ got.v = FirstOccurrences(given.v)
    ELSE IF key = "prepare" /\ given.k = "dict"
    THEN /\ got.k = "dict"
         /\ DOMAIN got.v = DOMAIN given.v
         /\ \A sub \in DOMAIN given.v \ {"copy_files"} :
                SameValue(got.v[sub], given.v[sub])
         /\ IsList(given.v, "copy_files") =>
                /\ got.v["copy_files"].k = "list"
                /\ Len(got.v["copy_files"].v) = Len(given.v["copy_files"].v)
    ELSE SameValue(got, given)

----------------------------------------------------------------------------
(* C1 *)

----------------------------------------------------------------------------
(* C2 *)

Bases == 1..Len(RootExtends)

\* The bases whose effective configuration defines key.
BasesWith(key) == {i \in Bases : key \in DOMAIN BaseEff(i)}

LastBaseWith(key) == CHOOSE i \in BasesWith(key) : \A j \in BasesWith(key) : j <= i

RECURSIVE BaseLists(_, _)
\* The lists the bases hold at key, in listed order.
BaseLists(key, i) ==
    IF i > Len(RootExtends) THEN <<>>
    ELSE (IF key \in DOMAIN BaseEff(i) THEN BaseEff(i)[key].v ELSE <<>>)
         \o BaseLists(key, i + 1)

ListEverywhere(key) ==
    /\ \A i \in BasesWith(key) : IsList(BaseEff(i), key)
    /\ key \in DOMAIN Current => IsList(Current, key)

RECURSIVE BaseCommands(_)
BaseCommands(i) ==
    IF i > Len(RootExtends) THEN <<>>
    ELSE (IF IsDict(BaseEff(i), "prepare") /\ IsList(BaseEff(i)["prepare"].v, "commands")
          THEN BaseEff(i)["prepare"].v["commands"].v ELSE <<>>)
         \o BaseCommands(i + 1)

OwnCommands ==
    IF IsDict(Current, "prepare") /\ IsList(Current["prepare"].v, "commands")
    THEN Current["prepare"].v["commands"].v ELSE <<>>

\* prepare is a mapping wherever it is defined, and commands a list in it
PrepareEverywhere ==
    /\ \A i \in BasesWith("prepare") :
          IsDict(BaseEff(i), "prepare") /\ IsList(BaseEff(i)["prepare"].v, "commands")
    /\ "prepare" \in DOMAIN Current =>
          IsDict(Current, "prepare") /\ IsList(Current["prepare"].v, "commands")

\* C2: the bases are merged in listed order and the current document last:
\* a scalar of the current document wins, otherwise the scalar of the
\* last-listed base that defines the key; a list key holds the lists of the
\* first-listed base, ..., the last-listed base, the current document.
C2_MergeOrder ==
    (Loaded /\ Len(RootExtends) >= 1) =>
        LET res == loaded.cfg IN
        /\ \A key \in DOMAIN Current :
              /\ key \in DOMAIN res
              /\ IsScalar(Current, key) => KeptAs(key, Current[key], res[key])
        /\ \A i \in Bases : \A key \in DOMAIN BaseEff(i) :
              /\ key \in DOMAIN res
              /\ (key \notin DOMAIN Current /\ IsScalar(BaseEff(LastBaseWith(key)), key))
                    => SameValue(res[key], BaseEff(LastBaseWith(key))[key])
        /\ \A key \in DOMAIN res :
              ListEverywhere(key) =>
                 LET all == BaseLists(key, 1)
                            \o (IF key \in DOMAIN Current THEN Current[key].v ELSE <<>>)
                 IN  /\ res[key].k = "list"
                     /\ res[key].v = IF IsDedupKey(key) THEN FirstOccurrences(all) ELSE all
        /\ ("prepare" \in DOMAIN res /\ PrepareEverywhere) =>
              /\ IsDict(res, "prepare") /\ IsList(res["prepare"].v, "commands")
              /\ res["prepare"].v["commands"].v = BaseCommands(1) \o OwnCommands

\* two bases and the current document disagree on scalars and all hold a list
C2_Witness ==
    /\ Loaded
    /\ Len(RootExtends) = 2
    /\ \E key \in DOMAIN Current :
          /\ IsScalar(Current, key)
          /\ \E i \in Bases : IsScalar(BaseEff(i), key) /\ BaseEff(i)[key].v # Current[key].v
    /\ \E key \in DOMAIN BaseEff(1) \cap DOMAIN BaseEff(2) :
          /\ key \notin DOMAIN Current
          /\ IsScalar(BaseEff(1), key) /\ IsScalar(BaseEff(2), key)
          /\ BaseEff(1)[key].v # BaseEff(2)[key].v
    /\ \E key \in DOMAIN Current :
          /\ IsList(Current, key) /\ IsList(BaseEff(1), key) /\ IsList(BaseEff(2), key)
          /\ ~IsDedupKey(key)

----------------------------------------------------------------------------
(* C3 *)

\* C3: the effective configuration never contains an extends key, whatever
\* the form (string, list, absent) and depth of the extends chain.
C3_NoExtendsKey == Loaded => "extends" \notin DOMAIN loaded.cfg

\* a string-form extends whose base has a list-form extends, whose base has
\* a string-form extends of its own
C3_Witness ==
    /\ Loaded
    /\ config_path = PC
    /\ IsScalar(files[PC].cfg, "extends")
    /\ IsList(files[PD].cfg, "extends")
    /\ IsScalar(files[PP].cfg, "extends")

----------------------------------------------------------------------------
(* The extends chain of the requested document *)

RECURSIVE ChainFrom(_, _)
RECURSIVE ChainOver(_, _, _)

\* The documents merged into the configuration of the document at p, in
\* merge order; a document reached along two paths is listed twice.
ChainFrom(p, fuel) ==
    IF fuel = 0 THEN <<>>
    ELSE ChainOver(p, ExtendsList(files[p].cfg), fuel) \o <<p>>

ChainOver(p, exts, fuel) ==
    IF exts = <<>> THEN <<>>
    ELSE ChainFrom(ExtPath(p, Head(exts)), fuel - 1) \o ChainOver(p, Tail(exts), fuel)

\* Meaningful when the call returned: every document of the chain exists.
Chain == ChainFrom(Resolve(config_path), MaxDepth + 1)

RECURSIVE Flatten(_)
Flatten(seqs) == IF seqs = <<>> THEN <<>> ELSE Head(seqs) \o Flatten(Tail(seqs))

\* The list each document of the chain writes at key, concatenated.
RawConcat(key) ==
    Flatten([i \in 1..Len(Chain) |->
        IF IsList(files[Chain[i]].cfg, key) THEN files[Chain[i]].cfg[key].v ELSE <<>>])

ListInChain(key) ==
    \A i \in 1..Len(Chain) :
        key \in DOMAIN files[Chain[i]].cfg => IsList(files[Chain[i]].cfg, key)

HasSub(cfg, sub) == IsDict(cfg, "prepare") /\ IsList(cfg["prepare"].v, sub)

\* The list each document of the chain writes at prepare.<sub>, concatenated.
RawPrepare(sub) ==
    Flatten([i \in 1..Len(Chain) |->
        IF HasSub(files[Chain[i]].cfg, sub)
        THEN files[Chain[i]].cfg["prepare"].v[sub].v ELSE <<>>])

\* prepare is a mapping of lists in every document of the chain that has it
PlainPrepare ==
    \A i \in 1..Len(Chain) :
        LET cfg == files[Chain[i]].cfg IN
        "prepare" \in DOMAIN cfg =>
            /\ IsDict(cfg, "prepare")
            /\ \A sub \in DOMAIN cfg["prepare"].v : IsList(cfg["prepare"].v, sub)

\* The copy_files entries as declared, each with the directory of the
\* document that declares it.
Declared ==
    Flatten([i \in 1..Len(Chain) |->
        IF HasSub(files[Chain[i]].cfg, "copy_files")
        THEN LET entries == files[Chain[i]].cfg["prepare"].v["copy_files"].v
             IN  [j \in 1..Len(entries) |->
                    [src |-> entries[j].src, dir |-> Parent(Chain[i])]]
        ELSE <<>>])

\* The file a declared entry names.
DeclaredFile(d) == Resolve(Join(d.dir, d.src))

EffectiveCopyFiles == loaded.cfg["prepare"].v["copy_files"].v

----------------------------------------------------------------------------
(* C4 *)

\* C4: every relative copy_files src declared anywhere in the extends chain
\* is, in the effective configuration, a path relative to the root document's
\* directory that, joined to that directory, denotes the file the original
\* src denotes from the directory of the document that declared it.
C4_SrcAnchoredAtRoot ==
    (Loaded /\ PlainPrepare /\ Declared # <<>>) =>
        /\ HasSub(loaded.cfg, "copy_files")
        /\ Len(EffectiveCopyFiles) = Len(Declared)
        /\ \A i \in 1..Len(Declared) :
              ~IsAbsolute(Declared[i].src) =>
                  /\ ~IsAbsolute(EffectiveCopyFiles[i].src)
                  /\ Resolve(Join(RootDir, EffectiveCopyFiles[i].src))
                        = DeclaredFile(Declared[i])

----------------------------------------------------------------------------
(* C5 *)

\* C5: load_config returns each relative copy_files src as the absolute,
\* fully resolved path of the file, resolved against the directory of the
\* document that declared it.
C5_SrcAbsolute ==
    (Loaded /\ PlainPrepare /\ Declared # <<>>) =>
        /\ HasSub(loaded.cfg, "copy_files")
        /\ Len(EffectiveCopyFiles) = Len(Declared)
        /\ \A i \in 1..Len(Declared) :
              ~IsAbsolute(Declared[i].src) =>
                  EffectiveCopyFiles[i].src = DeclaredFile(Declared[i])

----------------------------------------------------------------------------
(* C6 *)

\* C6: target_dirs, exclude_paths and omit_diff_paths hold no duplicate and
\* list the distinct elements of the concatenation over the extends chain in
\* first-occurrence order; every other list keeps all its duplicates.
C6_Dedup ==
    Loaded =>
        LET res == loaded.cfg IN
        /\ \A key \in DOMAIN res :
              /\ (IsDedupKey(key) /\ IsList(res, key)) => NoDuplicates(res[key].v)
              /\ (IsDedupKey(key) /\ ListInChain(key)) =>
                    /\ res[key].k = "list"
                    /\ res[key].v = FirstOccurrences(RawConcat(key))
              /\ (~IsDedupKey(key) /\ ListInChain(key) /\ IsList(res, key)) =>
                    res[key].v = RawConcat(key)
        /\ (PlainPrepare /\ RawPrepare("commands") # <<>>) =>
              /\ HasSub(res, "commands")
              /\ res["prepare"].v["commands"].v = RawPrepare("commands")

\* duplicates met across two documents: dropped from target_dirs, kept in
\* prepare.commands
C6_Witness ==
    /\ Loaded
    /\ Len(Chain) >= 2
    /\ ListInChain("target_dirs") /\ IsList(loaded.cfg, "target_dirs")
    /\ ~NoDuplicates(RawConcat("target_dirs"))
    /\ FirstOccurrences(RawConcat("target_dirs")) # _dedup_last(RawConcat("target_dirs"))
    /\ PlainPrepare /\ HasSub(loaded.cfg, "commands")
    /\ ~NoDuplicates(loaded.cfg["prepare"].v["commands"].v)

----------------------------------------------------------------------------
(* C7 *)

\* p is an existing file
Exists(p) == p \in DOMAIN files /\ files[p].kind # "missing"

\* The documents the extends entries of the document at p name.
ExtTargets(p) ==
    IF Exists(p) /\ files[p].kind = "mapping"
    THEN LET exts == ExtendsList(files[p].cfg)
         IN  {ExtPath(p, exts[i]) : i \in 1..Len(exts)}
    ELSE {}

RECURSIVE Reach(_, _)
Reach(set, n) ==
    IF n = 0 THEN set
    ELSE Reach(set \cup UNION {ExtTargets(p) : p \in set}, n - 1)

\* Every document the requested one reaches through extends, at any depth.
Closure == Reach({Resolve(config_path)}, Cardinality(Slots) + 1)

Cyclic == \E p \in Closure : p \in Reach(ExtTargets(p), Cardinality(Slots) + 1)

NotFound == ~loaded.ok /\ loaded.exc = "FileNotFoundError"

----------------------------------------------------------------------------
(* envdiff/container.py: one invocation of the container tool *)

\* How an invocation ends: exit status 0, a non-zero exit status, or the
\* executable cannot be started at all (an OSError such as FileNotFoundError
\* when the tool is not in PATH).  A command given to the shell (shell=True)
\* always starts: a missing tool is then a non-zero exit status.
Outcomes == {"ok", "nonzero", "oserror"}
ShellOutcomes == {"ok", "nonzero"}

\* _run_command(cmd, check=True): the exception raised, "none" if it returns
RunChecked(outcome) ==
    IF outcome = "ok" THEN "none"
    ELSE IF outcome = "nonzero" THEN "CalledProcessError"
    ELSE "FileNotFoundError"

\* _run_command(cmd, check=False): only a tool that cannot start raises
RunUnchecked(outcome) ==
    IF outcome = "oserror" THEN "FileNotFoundError" ELSE "none"

\* One entry of the history: what was done, on what, how it ended.
Event(ev, arg, res) == [ev |-> ev, arg |-> arg, res |-> res]

\* The level of the message a step logs about the command it ran:
\* execute_command and capture_command_output warn about a non-zero exit
\* status, _run_command logs an error for a failed check=True command and for
\* a tool that cannot be launched, run_analysis logs an error for a copy
\* source that is not on the host.
LogLevel(e) ==
    IF e.res = "oserror" \/ e.ev = "copy_skipped" THEN "error"
    ELSE IF e.ev \in {"exec_prepare", "exec_main", "capture_base", "capture_after"}
    THEN IF e.res = "nonzero" THEN "warning" ELSE "info"
    ELSE IF e.ev \in {"create", "cp", "start", "export_base", "export_after"}
    THEN IF e.res = "nonzero" THEN "error" ELSE "info"
    ELSE "info"

----------------------------------------------------------------------------
(* The configurations of a run *)

CmdDiff(command, outfile) == [command |-> command, outfile |-> outfile]

RunPrepare ==
    D(("copy_files" :> L(<<Entry(<<"f.txt">>, "/d"), Entry(<<"gone.txt">>, "/e")>>))
      @@ ("commands" :> L(<<"p1", "p2">>)))

RunMain == D(("commands" :> L(<<"m1", "m2">>)))

RunMinimal == ("base_image" :> S("img"))

RunNoTargets == RunMinimal @@ ("main_operation" :> RunMain)

RunNoImage ==
    ("title" :> S(<<"t">>))
    @@ ("description" :> S("about"))
    @@ ("prepare" :> RunPrepare)
    @@ ("target_dirs" :> L(<<"/etc">>))
    @@ ("command_diff" :> L(<<CmdDiff("ls", <<"out", "ls.txt">>),
                              CmdDiff("env", <<"env.txt">>)>>))
    @@ ("main_operation" :> RunMain)

RunFull == RunMinimal @@ RunNoImage

RunEmptyImage == ("base_image" :> S("")) @@ RunNoImage

\* two command_diff entries whose outfile has the same final component
RunClash ==
    RunMinimal
    @@ ("command_diff" :> L(<<CmdDiff("ls", <<"out", "ls.txt">>),
                              CmdDiff("env", <<"other", "ls.txt">>)>>))
    @@ ("main_operation" :> D(("commands" :> L(<<"m1">>))))

RunBadPrepare == RunMinimal @@ ("prepare" :> S("none"))

RunBase ==
    ("base_image" :> S("base"))
    @@ ("target_dirs" :> L(<<"/usr">>))
    @@ ("prepare" :> D(("copy_files" :> L(<<Entry(<<"f.txt">>, "/b")>>))
                       @@ ("commands" :> L(<<"p0">>))))

RunExtsC == << NoExtends, Extends(S(<<"base", "p.yaml">>)) >>
RunBodiesC ==
    << RunFull, RunNoImage, RunEmptyImage, RunNoTargets, RunMinimal, RunClash,
       RunBadPrepare >>
RunOthersC == <<Malformed>>

RunExtsP == << NoExtends >>
RunBodiesP == << RunBase >>
RunOthersP == <<Missing>>

RunRequests == { PC, <<"c.yaml">>, <<"nope.yaml">> }

\* The files of the host a copy_files entry may name.
HostFiles == { <<"/", "proj", "f.txt">>, <<"/", "proj", "base", "f.txt">> }

\* src_path.exists()
HostExists(p) == Resolve(p) \in HostFiles

----------------------------------------------------------------------------
(* envdiff/analysis.py: run_analysis *)

\* Python truth value of a configuration value
Falsy(key, value) ==
    IF value.k = "scalar"
    THEN IF key = "title" THEN value.v = <<>> ELSE value.v = ""
    ELSE IF value.k = "list" THEN value.v = <<>>
    ELSE DOMAIN value.v = {}

Truthy(cfg, key) == key \in DOMAIN cfg /\ ~Falsy(key, cfg[key])

\* config after title and description are popped (lines 115-116)
Config == Pop(Pop(loaded.cfg, "title"), "description")

\* root_dir = config_path.parent
RunRootDir == Parent(config_path)

\* config.get(key, [])
GetList(key) == IF key \in DOMAIN Config THEN Config[key].v ELSE <<>>

\* config.get(key, {}).get(sub, [])
GetSubList(key, sub) ==
    IF key \in DOMAIN Config /\ sub \in DOMAIN Config[key].v
    THEN Config[key].v[sub].v ELSE <<>>

\* config.get(key, {}).get(...) raises AttributeError on a value that is no mapping
NotAMapping(key) == key \in DOMAIN Config /\ Config[key].k # "dict"

NewReport ==
    [ started |-> TRUE,
      metadata |-> {"generated_on", "container_tool"}
                   \cup (IF Truthy(loaded.cfg, "title") THEN {"title"} ELSE {})
                   \cup (IF Truthy(loaded.cfg, "description") THEN {"description"} ELSE {}),
      definitions |-> DOMAIN Config,
      main_operation_results |-> <<>>,
      filesystem_rq |-> "null",
      filesystem_urN |-> "null",
      command_outputs |-> <<>> ]

Log(event) == trace' = Append(trace, event)

\* The run goes on at position p, loop index i.
Goto(p, i) == pc' = p /\ idx' = i /\ polls' = 0 /\ exc' = exc

\* An exception raised inside the with block: control passes to __exit__.
Abort(error) == pc' = "exit_stop" /\ idx' = 0 /\ polls' = 0 /\ exc' = error

\* An exception raised outside the with block propagates to the caller.
Propagate(error) == pc' = "raised" /\ idx' = 0 /\ polls' = 0 /\ exc' = error

\* RunLoadConfig without the base_image requirement of lines 117-120
RunLoadConfig_any_image ==
    /\ pc = "run"
    /\ LET r == load_config(files, config_path) IN
        /\ loaded' = r
        /\ IF ~r.ok
           THEN /\ Propagate(r.exc)
                /\ Log(Event("config", "load_config", r.exc))
                /\ report' = report
           ELSE /\ Goto("enter", 0)
                /\ Log(Event("config", "load_config", "ok"))
                /\ report' = NewReport'
    /\ UNCHANGED <<args, ret, files, config_path, container_id, base_out, after_out, written>>

\* Lines 113-136: load the configuration, require base_image, build output_data.
RunLoadConfig ==
    /\ pc = "run"
    /\ LET r == load_config(files, config_path) IN
        /\ loaded' = r
        /\ IF ~r.ok
           THEN /\ Propagate(r.exc)
                /\ Log(Event("config", "load_config", r.exc))
                /\ report' = report
           ELSE IF ~Truthy(r.cfg, "base_image")
           THEN /\ Propagate("ValueError")
                /\ Log(Event("config", "base_image", "ValueError"))
                /\ report' = report
           ELSE /\ Goto("enter", 0)
                /\ Log(Event("config", "load_config", "ok"))
                /\ report' = NewReport'
    /\ UNCHANGED <<args, ret, files, config_path, container_id, base_out, after_out, written>>

\* Line 138, ContainerManager.__enter__ -> create(): when create raises the
\* with block is never entered and __exit__ is not called.
EnterContainer ==
    /\ pc = "enter"
    /\ \E o \in Outcomes :
          /\ Log(Event("create", "image", o))
          /\ IF RunChecked(o) = "none"
             THEN container_id' = "cid" /\ Goto("copy", 1)
             ELSE container_id' = container_id /\ Propagate(RunChecked(o))
    /\ UNCHANGED <<args, ret, files, config_path, loaded, report, base_out, after_out, written>>

\* CopyFiles handing every entry to copy_to, which raises for a source that
\* is not on the host
CopyFiles_raise_missing ==
    /\ pc = "copy"
    /\ IF NotAMapping("prepare")
       THEN Abort("AttributeError") /\ trace' = trace
       ELSE IF idx > Len(GetSubList("prepare", "copy_files"))
       THEN Goto("start", 0) /\ trace' = trace
       ELSE LET entry == GetSubList("prepare", "copy_files")[idx]
                src_path == IF IsAbsolute(entry.src) THEN entry.src
                            ELSE Resolve(Join(RunRootDir, entry.src))
            IN  IF ~HostExists(src_path)
                THEN Abort("FileNotFoundError")
                     /\ Log(Event("copy_skipped", entry.dest, "missing"))
                ELSE \E o \in Outcomes :
                        /\ Log(Event("cp", entry.dest, o))
                        /\ IF RunChecked(o) = "none"
                           THEN Goto("copy", idx + 1)
                           ELSE Abort(RunChecked(o))
    /\ UNCHANGED <<args, ret, files, config_path, loaded, container_id, report, base_out, after_out, written>>

\* Lines 140-147: the copy_files loop; an entry whose source is not on the
\* host is skipped, ContainerManager.copy_to runs `cp` with check=True.
CopyFiles ==
    /\ pc = "copy"
    /\ IF NotAMapping("prepare")
       THEN Abort("AttributeError") /\ trace' = trace
       ELSE IF idx > Len(GetSubList("prepare", "copy_files"))
       THEN Goto("start", 0) /\ trace' = trace
       ELSE LET entry == GetSubList("prepare", "copy_files")[idx]
                src_path == IF IsAbsolute(entry.src) THEN entry.src
                            ELSE Resolve(Join(RunRootDir, entry.src))
            IN  IF ~HostExists(src_path)
                THEN Goto("copy", idx + 1) /\ Log(Event("copy_skipped", entry.dest, "missing"))
                ELSE \E o \in Outcomes :
                        /\ Log(Event("cp", entry.dest, o))
                        /\ IF RunChecked(o) = "none"
                           THEN Goto("copy", idx + 1)
                           ELSE Abort(RunChecked(o))
    /\ UNCHANGED <<args, ret, files, config_path, loaded, container_id, report, base_out, after_out, written>>

\* Line 149, ContainerManager.start lines 57-61: the start command, check=True
StartContainer ==
    /\ pc = "start"
    /\ \E o \in Outcomes :
          /\ Log(Event("start", "cid", o))
          /\ IF RunChecked(o) = "none" THEN Goto("poll", 0) ELSE Abort(RunChecked(o))
    /\ UNCHANGED <<args, ret, files, config_path, loaded, container_id, report, base_out, after_out, written>>

\* ContainerManager.start lines 64-76: one readiness poll per second, at most
\* `timeout` of them (only the poll that ends the wait with an exception is
\* entered in the history).
PollRunning ==
    /\ pc = "poll"
    /\ IF polls < StartTimeout
       THEN \E o \in {"running", "notyet", "oserror"} :
               IF o = "running" THEN Goto("prepare", 1) /\ trace' = trace
               ELSE IF o = "notyet"
               THEN pc' = pc /\ idx' = idx /\ polls' = polls + 1 /\ exc' = exc /\ trace' = trace
               ELSE Abort("FileNotFoundError") /\ Log(Event("wait_running", "cid", "oserror"))
       ELSE Abort("RuntimeError") /\ Log(Event("wait_running", "cid", "timeout"))
    /\ UNCHANGED <<args, ret, files, config_path, loaded, container_id, report, base_out, after_out, written>>

\* PrepareCommands going on to the main operation, without the baseline
PrepareCommands_skip_baseline ==
    /\ pc = "prepare"
    /\ IF idx > Len(GetSubList("prepare", "commands"))
       THEN Goto("main", 1) /\ trace' = trace
       ELSE \E o \in Outcomes :
               /\ Log(Event("exec_prepare", GetSubList("prepare", "commands")[idx], o))
               /\ IF RunUnchecked(o) = "none"
                  THEN Goto("prepare", idx + 1)
                  ELSE Abort(RunUnchecked(o))
    /\ UNCHANGED <<args, ret, files, config_path, loaded, container_id, report, base_out, after_out, written>>

\* PrepareCommands running each command with check=True
PrepareCommands_checked ==
    /\ pc = "prepare"
    /\ IF idx > Len(GetSubList("prepare", "commands"))
       THEN Goto("base_export", 0) /\ trace' = trace
       ELSE \E o \in Outcomes :
               /\ Log(Event("exec_prepare", GetSubList("prepare", "commands")[idx], o))
               /\ IF RunChecked(o) = "none"
                  THEN Goto("prepare", idx + 1)
                  ELSE Abort(RunChecked(o))
    /\ UNCHANGED <<args, ret, files, config_path, loaded, container_id, report, base_out, after_out, written>>

\* Lines 151-152: the prepare commands, ContainerManager.execute_command
\* (check=False: any exit status returns).
PrepareCommands ==
    /\ pc = "prepare"
    /\ IF idx > Len(GetSubList("prepare", "commands"))
       THEN Goto("base_export", 0) /\ trace' = trace
       ELSE \E o \in Outcomes :
               /\ Log(Event("exec_prepare", GetSubList("prepare", "commands")[idx], o))
               /\ IF RunUnchecked(o) = "none"
                  THEN Goto("prepare", idx + 1)
                  ELSE Abort(RunUnchecked(o))
    /\ UNCHANGED <<args, ret, files, config_path, loaded, container_id, report, base_out, after_out, written>>

\* Lines 172-173, ContainerManager.export_paths (shell pipeline, check=True)
ExportBaseline ==
    /\ pc = "base_export"
    /\ IF GetList("target_dirs") = <<>>
       THEN Goto("base_capture", 1) /\ trace' = trace
       ELSE \E o \in ShellOutcomes :
               /\ Log(Event("export_base", "fs_base", o))
               /\ IF RunChecked(o) = "none"
                  THEN Goto("base_capture", 1)
                  ELSE Abort(RunChecked(o))
    /\ UNCHANGED <<args, ret, files, config_path, loaded, container_id, report, base_out, after_out, written>>

\* CaptureBaseline leaving alone a file that is already there
CaptureBaseline_keep_first ==
    /\ pc = "base_capture"
    /\ IF idx > Len(GetList("command_diff"))
       THEN Goto("main", 1) /\ trace' = trace /\ base_out' = base_out
       ELSE LET entry == GetList("command_diff")[idx] IN
            \E o \in ShellOutcomes :
               /\ Log(Event("capture_base", entry.command, o))
               /\ base_out' = IF Name(entry.outfile) \in DOMAIN base_out
                              THEN base_out
                              ELSE Put(base_out, Name(entry.outfile), entry.command)
               /\ Goto("base_capture", idx + 1)
    /\ UNCHANGED <<args, ret, files, config_path, loaded, container_id, report, after_out, written>>

\* CaptureBaseline saving the output only of a command that exited with 0
CaptureBaseline_skip_failed ==
    /\ pc = "base_capture"
    /\ IF idx > Len(GetList("command_diff"))
       THEN Goto("main", 1) /\ trace' = trace /\ base_out' = base_out
       ELSE LET entry == GetList("command_diff")[idx] IN
            \E o \in ShellOutcomes :
               /\ Log(Event("capture_base", entry.command, o))
               /\ base_out' = IF o = "ok"
                              THEN Put(base_out, Name(entry.outfile), entry.command)
                              ELSE base_out
               /\ Goto("base_capture", idx + 1)
    /\ UNCHANGED <<args, ret, files, config_path, loaded, container_id, report, after_out, written>>

\* Lines 174-176, ContainerManager.capture_command_output (shell, check=False):
\* the file named by the final component of outfile receives the output.
CaptureBaseline ==
    /\ pc = "base_capture"
    /\ IF idx > Len(GetList("command_diff"))
       THEN Goto("main", 1) /\ trace' = trace /\ base_out' = base_out
       ELSE LET entry == GetList("command_diff")[idx] IN
            \E o \in ShellOutcomes :
               /\ Log(Event("capture_base", entry.command, o))
               /\ base_out' = Put(base_out, Name(entry.outfile), entry.command)
               /\ Goto("base_capture", idx + 1)
    /\ UNCHANGED <<args, ret, files, config_path, loaded, container_id, report, after_out, written>>

\* Lines 180-183: the main operation, each result appended to the report
MainOperation ==
    /\ pc = "main"
    /\ IF NotAMapping("main_operation")
       THEN Abort("AttributeError") /\ trace' = trace /\ report' = report
       ELSE IF idx > Len(GetSubList("main_operation", "commands"))
       THEN Goto("after_export", 0) /\ trace' = trace /\ report' = report
       ELSE LET cmd_str == GetSubList("main_operation", "commands")[idx] IN
            \E o \in Outcomes :
               /\ Log(Event("exec_main", cmd_str, o))
               /\ IF RunUnchecked(o) = "none"
                  THEN /\ Goto("main", idx + 1)
                       /\ report' = [report EXCEPT !.main_operation_results =
                             Append(@, [command |-> cmd_str,
                                        return_code |-> IF o = "ok" THEN 0 ELSE 1])]
                  ELSE Abort(RunUnchecked(o)) /\ report' = report
    /\ UNCHANGED <<args, ret, files, config_path, loaded, container_id, base_out, after_out, written>>

\* Lines 187-188
ExportAfter ==
    /\ pc = "after_export"
    /\ IF GetList("target_dirs") = <<>>
       THEN Goto("after_capture", 1) /\ trace' = trace
       ELSE \E o \in ShellOutcomes :
               /\ Log(Event("export_after", "fs_after", o))
               /\ IF RunChecked(o) = "none"
                  THEN Goto("after_capture", 1)
                  ELSE Abort(RunChecked(o))
    /\ UNCHANGED <<args, ret, files, config_path, loaded, container_id, report, base_out, after_out, written>>

\* CaptureAfter saving the output only of a command that exited with 0
CaptureAfter_skip_failed ==
    /\ pc = "after_capture"
    /\ IF idx > Len(GetList("command_diff"))
       THEN Goto("diff_fs", 0) /\ trace' = trace /\ after_out' = after_out
       ELSE LET entry == GetList("command_diff")[idx] IN
            \E o \in ShellOutcomes :
               /\ Log(Event("capture_after", entry.command, o))
               /\ after_out' = IF o = "ok"
                               THEN Put(after_out, Name(entry.outfile), entry.command)
                               ELSE after_out
               /\ Goto("after_capture", idx + 1)
    /\ UNCHANGED <<args, ret, files, config_path, loaded, container_id, report, base_out, written>>

\* Lines 189-191
CaptureAfter ==
    /\ pc = "after_capture"
    /\ IF idx > Len(GetList("command_diff"))
       THEN Goto("diff_fs", 0) /\ trace' = trace /\ after_out' = after_out
       ELSE LET entry == GetList("command_diff")[idx] IN
            \E o \in ShellOutcomes :
               /\ Log(Event("capture_after", entry.command, o))
               /\ after_out' = Put(after_out, Name(entry.outfile), entry.command)
               /\ Goto("after_capture", idx + 1)
    /\ UNCHANGED <<args, ret, files, config_path, loaded, container_id, report, base_out, written>>

\* DiffFilesystem leaving both filesystem fields as they were when there are
\* no target directories to compare
DiffFilesystem_leave_null ==
    /\ pc = "diff_fs"
    /\ IF GetList("target_dirs") # <<>>
       THEN /\ trace' = trace \o <<Event("diff", "rq", "ok"), Event("diff", "urN", "ok")>>
            /\ report' = [report EXCEPT !.filesystem_rq = "list", !.filesystem_urN = "list"]
       ELSE /\ trace' = trace
            /\ report' = report
    /\ Goto("diff_cmd", 1)
    /\ UNCHANGED <<args, ret, files, config_path, loaded, container_id, base_out, after_out, written>>

\* Lines 198-224: the two filesystem diffs, or the skip reason
DiffFilesystem ==
    /\ pc = "diff_fs"
    /\ IF GetList("target_dirs") # <<>>
       THEN /\ trace' = trace \o <<Event("diff", "rq", "ok"), Event("diff", "urN", "ok")>>
            /\ report' = [report EXCEPT !.filesystem_rq = "list", !.filesystem_urN = "list"]
       ELSE /\ trace' = trace
            /\ report' = [report EXCEPT !.filesystem_rq = "skipped",
                                        !.filesystem_urN = "skipped"]
    /\ Goto("diff_cmd", 1)
    /\ UNCHANGED <<args, ret, files, config_path, loaded, container_id, base_out, after_out, written>>

\* DiffCommands appending an entry only for a comparison that was made
DiffCommands_drop_skipped ==
    /\ pc = "diff_cmd"
    /\ IF idx > Len(GetList("command_diff"))
       THEN Abort(exc) /\ trace' = trace /\ report' = report
       ELSE LET entry == GetList("command_diff")[idx]
                outfile_name == Name(entry.outfile)
                both == outfile_name \in DOMAIN base_out /\ outfile_name \in DOMAIN after_out
            IN  /\ Goto("diff_cmd", idx + 1)
                /\ trace' = IF both THEN Append(trace, Event("diff", entry.command, "ok"))
                            ELSE trace
                /\ report' = IF both
                             THEN [report EXCEPT !.command_outputs =
                                     Append(@, [command |-> entry.command,
                                                diff_file |-> entry.outfile,
                                                diff_content |->
                                                   <<"diff", base_out[outfile_name],
                                                     after_out[outfile_name]>>])]
                             ELSE report
    /\ UNCHANGED <<args, ret, files, config_path, loaded, container_id, base_out, after_out, written>>

\* Lines 226-251: one command_outputs entry per command_diff entry; leaving
\* the loop leaves the temporary directory and the with block.
DiffCommands ==
    /\ pc = "diff_cmd"
    /\ IF idx > Len(GetList("command_diff"))
       THEN Abort(exc) /\ trace' = trace /\ report' = report
       ELSE LET entry == GetList("command_diff")[idx]
                outfile_name == Name(entry.outfile)
                both == outfile_name \in DOMAIN base_out /\ outfile_name \in DOMAIN after_out
            IN  /\ Goto("diff_cmd", idx + 1)
                /\ trace' = IF both THEN Append(trace, Event("diff", entry.command, "ok"))
                            ELSE trace
                /\ report' = [report EXCEPT !.command_outputs =
                      Append(@, [command |-> entry.command,
                                 diff_file |-> entry.outfile,
                                 diff_content |->
                                    IF both
                                    THEN <<"diff", base_out[outfile_name], after_out[outfile_name]>>
                                    ELSE <<"skipped",
                                           IF outfile_name \in DOMAIN base_out THEN "" ELSE "baseline",
                                           IF outfile_name \in DOMAIN after_out THEN "" ELSE "after">>])]
    /\ UNCHANGED <<args, ret, files, config_path, loaded, container_id, base_out, after_out, written>>

\* ExitStop with remove after the try statement instead of in its finally
\* clause: an exception out of stop leaves __exit__ before remove.
ExitStop_no_finally ==
    /\ pc = "exit_stop"
    /\ IF container_id # "None"
       THEN \E o \in Outcomes :
               /\ Log(Event("stop", "0", o))
               /\ pc' = IF RunUnchecked(o) = "none" THEN "exit_remove"
                        ELSE IF exc = "none" THEN "write" ELSE "raised"
       ELSE trace' = trace /\ pc' = "exit_remove"
    /\ UNCHANGED <<args, ret, files, config_path, loaded, container_id, idx, polls, exc, report,
                   base_out, after_out, written>>

\* ContainerManager.__exit__ lines 190-195: stop(timeout=0), check=False; an
\* exception out of stop is caught and logged.
ExitStop ==
    /\ pc = "exit_stop"
    /\ IF container_id # "None"
       THEN \E o \in Outcomes : Log(Event("stop", "0", o))
       ELSE trace' = trace
    /\ pc' = "exit_remove"
    /\ UNCHANGED <<args, ret, files, config_path, loaded, container_id, idx, polls, exc, report,
                   base_out, after_out, written>>

\* ExitRemove letting the exception of a remove that cannot run leave __exit__
ExitRemove_raises ==
    /\ pc = "exit_remove"
    /\ IF container_id # "None"
       THEN /\ \E o \in Outcomes :
                 /\ Log(Event("rm", "-f", o))
                 /\ exc' = IF RunUnchecked(o) = "none" THEN exc ELSE RunUnchecked(o)
            /\ container_id' = "None"
       ELSE trace' = trace /\ container_id' = container_id /\ exc' = exc
    /\ pc' = IF exc' = "none" THEN "write" ELSE "raised"
    /\ UNCHANGED <<args, ret, files, config_path, loaded, idx, polls, report,
                   base_out, after_out, written>>

\* ExitRemove going on to write the report whatever the with block raised
ExitRemove_always_write ==
    /\ pc = "exit_remove"
    /\ IF container_id # "None"
       THEN /\ \E o \in Outcomes : Log(Event("rm", "-f", o))
            /\ container_id' = "None"
       ELSE trace' = trace /\ container_id' = container_id
    /\ pc' = "write"
    /\ UNCHANGED <<args, ret, files, config_path, loaded, idx, polls, exc, report,
                   base_out, after_out, written>>

\* ContainerManager.__exit__ lines 196-202: remove(force=True) in the finally
\* clause; the exception of the with block, if any, then propagates.
ExitRemove ==
    /\ pc = "exit_remove"
    /\ IF container_id # "None"
       THEN /\ \E o \in Outcomes : Log(Event("rm", "-f", o))
            /\ container_id' = "None"
       ELSE trace' = trace /\ container_id' = container_id
    /\ pc' = IF exc = "none" THEN "write" ELSE "raised"
    /\ UNCHANGED <<args, ret, files, config_path, loaded, idx, polls, exc, report,
                   base_out, after_out, written>>

\* Lines 255-259: the report is written
WriteReport ==
    /\ pc = "write"
    /\ \E o \in {"ok", "oserror"} :
          /\ Log(Event("write", "report", o))
          /\ IF o = "ok"
             THEN written' = written + 1 /\ pc' = "done" /\ exc' = exc
             ELSE written' = written /\ pc' = "raised" /\ exc' = "OSError"
    /\ UNCHANGED <<args, ret, files, config_path, loaded, container_id, idx, polls, report,
                   base_out, after_out>>

InitRun ==
    /\ \E c \in Choices(RunExtsC, RunBodiesC, RunOthersC),
          p \in Choices(RunExtsP, RunBodiesP, RunOthersP) :
          files = (PC :> Doc(RunExtsC, RunBodiesC, RunOthersC, c))
                  @@ (PD :> Missing)
                  @@ (PP :> Doc(RunExtsP, RunBodiesP, RunOthersP, p))
                  @@ (PG :> Missing)
    /\ config_path \in RunRequests
    /\ pc = "run"
    /\ loaded = Raised("none")
    /\ RunIdle

NextRun ==
    \/ RunLoadConfig
    \/ EnterContainer
    \/ CopyFiles
    \/ StartContainer
    \/ PollRunning
    \/ PrepareCommands
    \/ ExportBaseline
    \/ CaptureBaseline
    \/ MainOperation
    \/ ExportAfter
    \/ CaptureAfter
    \/ DiffFilesystem
    \/ DiffCommands
    \/ ExitStop
    \/ ExitRemove
    \/ WriteReport

SpecRun == InitRun /\ [][NextRun]_vars

\* The capture files live in a temporary directory of the host until the
\* command diffs read them (lines 228-236 test that each exists): one of
\* them may be gone by then.
LoseCapture ==
    /\ pc = "diff_fs"
    /\ \E name \in DOMAIN base_out \cup DOMAIN after_out :
          \/ /\ name \in DOMAIN base_out
             /\ base_out' = Pop(base_out, name)
             /\ after_out' = after_out
          \/ /\ name \in DOMAIN after_out
             /\ after_out' = Pop(after_out, name)
             /\ base_out' = base_out
    /\ UNCHANGED <<args, ret, files, config_path, pc, loaded, container_id, idx, polls, exc, report,
                   written, trace>>

\* The runs with command_diff entries, each document on its own.
LossyBodies == << RunFull, RunClash >>

InitRunLossy ==
    /\ \E b \in 1..Len(LossyBodies) :
          files = (PC :> Mapping(NoExtends, LossyBodies[b]))
                  @@ (PD :> Missing) @@ (PP :> Missing) @@ (PG :> Missing)
    /\ config_path \in RunRequests
    /\ pc = "run"
    /\ loaded = Raised("none")
    /\ RunIdle

NextRunLossy == NextRun \/ LoseCapture

SpecRunLossy == InitRunLossy /\ [][NextRunLossy]_vars

----------------------------------------------------------------------------
(* What the claims about a run speak about *)

ContainerOps ==
    { "create", "cp", "start", "exec_prepare", "export_base", "capture_base",
      "exec_main", "export_after", "capture_after", "stop", "rm" }

\* The entries of the history of the given kinds, in order, and what they act on.
Events(kinds) == SelectSeq(trace, LAMBDA e : e.ev \in kinds)
Args(kinds) == [i \in 1..Len(Events(kinds)) |-> Events(kinds)[i].arg]

IsPrefix(s, t) == Len(s) <= Len(t) /\ \A i \in 1..Len(s) : s[i] = t[i]

----------------------------------------------------------------------------
(* C8 *)

FileMissing == \E p \in Closure : ~Exists(p)
YamlMalformed == \E p \in Closure : Exists(p) /\ files[p].kind = "malformed"

\* The documents of the chain that write base_image; the last one wins.
WithImage == {i \in 1..Len(Chain) : "base_image" \in DOMAIN files[Chain[i]].cfg}

BaseImageAbsent ==
    /\ ~FileMissing
    /\ ~YamlMalformed
    /\ \/ WithImage = {}
       \/ LET last == CHOOSE i \in WithImage : \A j \in WithImage : j <= i
          IN  files[Chain[last]].cfg["base_image"].v = ""

ConfigInError == FileMissing \/ YamlMalformed \/ BaseImageAbsent

\* C8: when the configuration is in error (a document of the chain missing
\* or malformed, base_image absent or empty) the run raises before any
\* container operation: the history never holds a create, copy, start, exec,
\* export, capture, stop or remove, no poll is made and no container is owned.
C8_NoContainerOnConfigError ==
    ConfigInError =>
        /\ \A i \in 1..Len(trace) : trace[i].ev \notin ContainerOps
        /\ container_id = "None"
        /\ polls = 0
        /\ pc \in {"run", "raised"}
        /\ pc = "raised" => exc \in {"FileNotFoundError", "YAMLError", "ValueError"}

\* the requested document overrides the image of its base with an empty one
C8_Witness ==
    /\ pc = "raised"
    /\ exc = "ValueError"
    /\ BaseImageAbsent
    /\ WithImage # {}
    /\ Len(Chain) = 2
    /\ Len(trace) = 1

----------------------------------------------------------------------------
(* C9 *)

\* The phase an entry of the history belongs to, in the order of the run.
Phase(ev) ==
    CASE ev = "config" -> 0
      [] ev = "create" -> 1
      [] ev \in {"cp", "copy_skipped"} -> 2
      [] ev \in {"start", "wait_running"} -> 3
      [] ev = "exec_prepare" -> 4
      [] ev = "export_base" -> 5
      [] ev = "capture_base" -> 6
      [] ev = "exec_main" -> 7
      [] ev = "export_after" -> 8
      [] ev = "capture_after" -> 9
      [] ev = "diff" -> 10
      [] OTHER -> 11

\* Some step of phase n or of a later phase of the run has been taken.
Begun(n) == \E i \in 1..Len(trace) : Phase(trace[i].ev) >= n /\ Phase(trace[i].ev) <= 10

Dests == [i \in 1..Len(GetSubList("prepare", "copy_files")) |->
             GetSubList("prepare", "copy_files")[i].dest]
DiffCommandsOf == [i \in 1..Len(GetList("command_diff")) |-> GetList("command_diff")[i].command]

Succeeded(kinds) == \A i \in 1..Len(trace) : trace[i].ev \in kinds => trace[i].res = "ok"

CopiesDone == Args({"cp", "copy_skipped"}) = Dests /\ Succeeded({"cp"})
PrepareDone == Args({"exec_prepare"}) = GetSubList("prepare", "commands")
BaselineDone ==
    /\ GetList("target_dirs") # <<>> => Len(Events({"export_base"})) = 1
    /\ Succeeded({"export_base"})
    /\ Args({"capture_base"}) = DiffCommandsOf
MainDone == Args({"exec_main"}) = GetSubList("main_operation", "commands")
AfterDone ==
    /\ GetList("target_dirs") # <<>> => Len(Events({"export_after"})) = 1
    /\ Succeeded({"export_after"})
    /\ Args({"capture_after"}) = DiffCommandsOf

\* C9: the steps of a run are taken phase by phase: configuration, create,
\* the copies, start, the prepare commands, the baseline export and then the
\* baseline captures, the main commands in configured order, the after export
\* and captures, the diffs; a phase begins only when the one before is
\* complete, so no main command runs before the baseline capture is complete
\* and no diff is made before the after capture is complete.
C9_PhaseOrder ==
    (pc # "run" /\ report.started /\ ~NotAMapping("prepare")) =>
        /\ trace # <<>> /\ trace[1].ev = "config"
        /\ \A i, j \in 1..Len(trace) : i < j => Phase(trace[i].ev) <= Phase(trace[j].ev)
        /\ Len(Events({"config"})) = 1
        /\ Len(Events({"create"})) <= 1
        /\ Len(Events({"start"})) <= 1
        /\ IsPrefix(Args({"cp", "copy_skipped"}), Dests)
        /\ IsPrefix(Args({"exec_prepare"}), GetSubList("prepare", "commands"))
        /\ IsPrefix(Args({"capture_base"}), DiffCommandsOf)
        /\ IsPrefix(Args({"exec_main"}), GetSubList("main_operation", "commands"))
        /\ IsPrefix(Args({"capture_after"}), DiffCommandsOf)
        /\ Begun(2) => Len(Events({"create"})) = 1 /\ Succeeded({"create"})
        /\ Begun(3) => CopiesDone
        /\ Begun(4) => Len(Events({"start"})) = 1 /\ Succeeded({"start"})
        /\ Begun(5) => PrepareDone
        /\ Begun(7) => PrepareDone /\ BaselineDone
        /\ Begun(8) => MainDone
        /\ Begun(10) => BaselineDone /\ MainDone /\ AfterDone
        /\ polls > 0 => Len(Events({"start"})) = 1 /\ ~Begun(4)
        /\ pc \in {"write", "done"} => MainDone /\ AfterDone

\* a completed run in which every phase had something to do
C9_Witness ==
    /\ pc = "done"
    /\ \A ev \in {"create", "cp", "start", "exec_prepare", "export_base", "capture_base",
                  "exec_main", "export_after", "capture_after", "diff"} :
          Events({ev}) # <<>>
    /\ Len(Events({"exec_main"})) = 2
    /\ Len(Events({"capture_base"})) = 2
    /\ Len(Events({"diff"})) = 4

----------------------------------------------------------------------------
(* C10 *)

Created == \E i \in 1..Len(trace) : trace[i].ev = "create" /\ trace[i].res = "ok"

\* run_analysis has left the with block
Exited == pc \in {"write", "done", "raised"}

\* C10: once the container is created, every way out of the run, normal or
\* by an exception of any later phase, attempts one stop and directly after
\* it one forced remove, whatever the outcome of the stop; no container
\* operation follows the remove and the container is no longer owned.
C10_StopThenRemove ==
    Created =>
        /\ Exited =>
             /\ Len(Events({"stop"})) = 1
             /\ Len(Events({"rm"})) = 1
             /\ \E i \in 1..(Len(trace) - 1) :
                   /\ trace[i].ev = "stop"
                   /\ trace[i + 1].ev = "rm"
                   /\ trace[i + 1].arg = "-f"
                   /\ \A j \in 1..Len(trace) : trace[j].ev = "create" => j < i
                   /\ \A j \in (i + 2)..Len(trace) : trace[j].ev \notin ContainerOps
             /\ container_id = "None"
        /\ pc = "exit_remove" => trace[Len(trace)].ev = "stop"
        /\ ~Exited => Events({"rm"}) = <<>>

\* an error of the main operation, then a stop that raises, then the remove
C10_Witness ==
    /\ pc = "raised"
    /\ Created
    /\ Events({"exec_main"}) # <<>>
    /\ exc = "FileNotFoundError"
    /\ Len(trace) >= 2
    /\ trace[Len(trace) - 1] = Event("stop", "0", "oserror")
    /\ trace[Len(trace)].ev = "rm"

----------------------------------------------------------------------------
(* C11 *)

CleanupFailed ==
    \E i \in 1..Len(trace) : trace[i].ev \in {"stop", "rm"} /\ trace[i].res # "ok"

C11_WitnessRaised ==
    /\ pc = "raised"
    /\ exc = "CalledProcessError"
    /\ CleanupFailed
    /\ \E i \in 1..Len(trace) : trace[i].ev = "export_base" /\ trace[i].res = "nonzero"

----------------------------------------------------------------------------
(* C12 *)

\* Everything the report is built from has been gathered.
ReportComplete ==
    /\ report.started
    /\ Len(report.main_operation_results) = Len(GetSubList("main_operation", "commands"))
    /\ Len(report.command_outputs) = Len(GetList("command_diff"))
    /\ report.filesystem_rq # "null"
    /\ report.filesystem_urN # "null"

\* C12: the report is written at most once, and only as the last step of a
\* run: after every main-operation result and every diff has been gathered
\* and after stop and remove; a run that ends without a fatal error has
\* written it exactly once, a run that raised has written nothing, and no
\* write is attempted at any earlier point.
C12_ReportWrittenOnce ==
    /\ written \in {0, 1}
    /\ pc = "done" <=> written = 1
    /\ pc = "raised" => written = 0
    /\ \A i \in 1..Len(trace) :
          trace[i].ev = "write" =>
              /\ i = Len(trace)
              /\ pc \in {"done", "raised"}
              /\ i > 2 /\ trace[i - 2].ev = "stop" /\ trace[i - 1].ev = "rm"
              /\ ReportComplete
    /\ written = 1 =>
          /\ exc = "none"
          /\ ReportComplete
          /\ trace[Len(trace)] = Event("write", "report", "ok")
          /\ container_id = "None"

\* the report of a run with main results, filesystem diffs and command diffs
C12_Witness ==
    /\ pc = "done"
    /\ written = 1
    /\ Len(report.main_operation_results) = 2
    /\ Len(report.command_outputs) = 2
    /\ report.filesystem_rq = "list"

----------------------------------------------------------------------------
(* C13 *)

NonEssential == {"exec_prepare", "capture_base", "exec_main", "capture_after"}

\* A required invocation of the container tool failed: create, copy, start
\* (the wait for the running state included) or export.
RequiredFailed(e) ==
    \/ e.ev \in {"create", "cp", "start", "export_base", "export_after"} /\ e.res # "ok"
    \/ e.ev = "wait_running"

ConfigFailed(e) == e.ev = "config" /\ e.res # "ok"

\* The tool could not be launched at all for a command run in the container.
LaunchFailed(e) == e.ev \in {"exec_prepare", "exec_main"} /\ e.res = "oserror"

WriteFailed(e) == e.ev = "write" /\ e.res # "ok"

\* The configuration loads but a section the run reads has the wrong shape.
Misshaped == exc = "AttributeError"

SomeEvent(Test(_)) == \E i \in 1..Len(trace) : Test(trace[i])

\* The commands the loop the run is in has issued so far.
Issued ==
    CASE pc = "prepare" -> Events({"exec_prepare"})
      [] pc = "base_capture" -> Events({"capture_base"})
      [] pc = "main" -> Events({"exec_main"})
      [] pc = "after_capture" -> Events({"capture_after"})
      [] OTHER -> <<>>

----------------------------------------------------------------------------
(* C14 *)

\* The report holds a result of the command with the given return code.
InReport(command, return_code) ==
    /\ report.started
    /\ \E i \in 1..Len(report.main_operation_results) :
          /\ report.main_operation_results[i].command = command
          /\ report.main_operation_results[i].return_code = return_code

\* The capture file of every command_diff entry with the given command exists.
Captured(out, command) ==
    \A i \in 1..Len(GetList("command_diff")) :
        GetList("command_diff")[i].command = command =>
            Name(GetList("command_diff")[i].outfile) \in DOMAIN out

FailedQuietly(e) ==
    e.ev \in {"exec_prepare", "capture_base", "capture_after"} /\ e.res = "nonzero"

\* C14 as stated: the result of a prepare or capture command that exited
\* non-zero is recorded with its exit code.
C14_ResultRecorded ==
    pc = "done" =>
        \A i \in 1..Len(trace) : FailedQuietly(trace[i]) => InReport(trace[i].arg, 1)

\* C14: when a prepare command or a capture command exits non-zero a warning
\* is logged and the run continues; the result goes nowhere but the log: the
\* report holds results, with their return code, of the main commands only,
\* and the output of a capture command is saved to its capture file whatever
\* its exit status.
C14_NonZeroWarned ==
    \A i \in 1..Len(trace) :
        /\ FailedQuietly(trace[i]) =>
              /\ LogLevel(trace[i]) = "warning"
              /\ i = Len(trace) => exc = "none" /\ pc \notin {"exit_stop", "raised"}
              /\ ~InReport(trace[i].arg, 1)
              /\ ~InReport(trace[i].arg, 0)
        /\ trace[i].ev = "capture_base" => Captured(base_out, trace[i].arg)
        /\ trace[i].ev = "capture_after" => Captured(after_out, trace[i].arg)
        /\ (trace[i].ev = "exec_main" /\ trace[i].res # "oserror") =>
              InReport(trace[i].arg, IF trace[i].res = "ok" THEN 0 ELSE 1)

\* a finished run in which a prepare command and both captures of a
\* command_diff entry exited non-zero, as did a main command
C14_Witness ==
    /\ pc = "done"
    /\ \A ev \in {"exec_prepare", "capture_base", "capture_after", "exec_main"} :
          \E i \in 1..Len(trace) : trace[i].ev = ev /\ trace[i].res = "nonzero"
    /\ Len(report.main_operation_results) = 2
    /\ DOMAIN base_out = {"ls.txt", "env.txt"}

----------------------------------------------------------------------------
(* C15 *)

\* The command diffs have begun: the capture files no longer change.
AtCommandDiffs == pc = "diff_cmd" \/ (pc \in {"exit_stop", "exit_remove", "write", "done", "raised"} /\ report.filesystem_rq # "null")

OutfileName(k) == Name(GetList("command_diff")[k].outfile)
BaseMissing(k) == OutfileName(k) \notin DOMAIN base_out
AfterMissing(k) == OutfileName(k) \notin DOMAIN after_out

\* C15: a command_diff entry one of whose capture files is absent when the
\* command diffs are made is still given its command_outputs entry, in its
\* place; no comparison is made for it, nothing is raised, and diff_content
\* is the skip reason naming exactly the absent files.
C15_MissingCaptureSkipped ==
    AtCommandDiffs =>
        /\ IsPrefix([k \in 1..Len(report.command_outputs) |-> report.command_outputs[k].command],
                    DiffCommandsOf)
        /\ pc # "diff_cmd" => Len(report.command_outputs) = Len(DiffCommandsOf)
        /\ pc = "diff_cmd" => exc = "none" /\ idx = Len(report.command_outputs) + 1
        /\ \A k \in 1..Len(report.command_outputs) :
              LET entry == report.command_outputs[k] IN
              /\ entry.diff_file = GetList("command_diff")[k].outfile
              /\ IF BaseMissing(k) \/ AfterMissing(k)
                 THEN /\ entry.diff_content =
                            <<"skipped", IF BaseMissing(k) THEN "baseline" ELSE "",
                                         IF AfterMissing(k) THEN "after" ELSE "">>
                      /\ \A i \in 1..Len(trace) :
                            ~(trace[i].ev = "diff" /\ trace[i].arg = entry.command)
                 ELSE entry.diff_content[1] = "diff"

\* a finished run: the baseline file of the first entry and both files of
\* the second were absent
C15_Witness ==
    /\ pc = "done"
    /\ Len(report.command_outputs) = 2
    /\ report.command_outputs[1].diff_content = <<"skipped", "baseline", "">>
    /\ report.command_outputs[2].diff_content = <<"skipped", "baseline", "after">>

----------------------------------------------------------------------------
(* envdiff/diff.py: the text of the comparison tool *)

\* A text is a sequence of lines, a line a sequence of words (split at
\* blanks), a word a sequence of segments (split at "/").  A pattern is a
\* sequence of segments, the first one "" when the pattern begins with "/".
\* Segments are compared whole.
W(s) == <<s>>
Under(root, path) == <<root>> \o path

\* The first words that begin with a letter.
AlphaWords == {"diff", "Binary", "File", "Files", "Only"}

\* line and line[0].isalpha() in _omit_diff_details, /^[a-zA-Z]/ in awk
IsHeaderLine(line) == line # <<>> /\ Head(line)[1] \in AlphaWords

\* The modification time diff writes after a tab on --- and +++ lines.
Stamp == W("\t2024-01-01")
Omitted == W("(omitted)")

DiffHeader(path) == <<W("diff"), W("-urN"), Under("base", path), Under("after", path)>>
FromLine(path) == <<W("---"), Under("base", path), Stamp>>
ToLine(path) == <<W("+++"), Under("after", path), Stamp>>
HunkLines == << <<W("@@")>>, <<W("-foo")>>, <<W("+bar")>> >>

\* The entries `diff -urN` writes: for two text files, for two binary files,
\* for a directory that became a regular file.
TextEntry(path) == <<DiffHeader(path), FromLine(path), ToLine(path)>> \o HunkLines
BinaryEntry(path) ==
    << <<W("Binary"), W("files"), Under("base", path), W("and"),
         Under("after", path), W("differ")>> >>
TypeEntry(path) ==
    << <<W("File"), Under("base", path), W("is"), W("a"), W("directory"), W("while"),
         W("file"), Under("after", path), W("is"), W("a"), W("regular"), W("file")>> >>

\* The lines `diff -rq` writes.
DifferLine(path) ==
    <<W("Files"), Under("base", path), W("and"), Under("after", path), W("differ")>>
OnlyLine(dir, name) == <<W("Only"), W("in"), Under("after", dir), W(name)>>

\* The line `diff -su` writes for two equal files.
IdenticalLine(path) ==
    <<W("Files"), Under("cmd_outputs_base", path), W("and"),
      Under("cmd_outputs_after", path), W("are"), W("identical")>>

\* The regular expression [^ /]*(pattern) at the start of a word: the
\* pattern follows the first segment, or begins with it.
WordMatches(word, pattern) ==
    IF Head(pattern) = ""
    THEN word # <<>> /\ IsPrefix(Tail(pattern), Tail(word))
    ELSE IsPrefix(pattern, word)

\* awk: h ~ p with p = '^[^ ]* [^ ]* [^ /]*(e1|e2|...)'
ExcludedFull(h, exclude_paths) ==
    /\ Len(h) >= 3
    /\ \E i \in 1..Len(exclude_paths) : WordMatches(h[3], exclude_paths[i])

\* grep -E '^[^ ]* ([^ ]* )?[^ /]*(e1|e2|...)'
ExcludedStatus(line, exclude_paths) ==
    \E i \in 1..Len(exclude_paths) :
        \/ Len(line) >= 2 /\ WordMatches(line[2], exclude_paths[i])
        \/ Len(line) >= 3 /\ WordMatches(line[3], exclude_paths[i])

\* p in line
Contains(line, pattern) ==
    LET segs == IF Head(pattern) = "" THEN Tail(pattern) ELSE pattern
        first == IF Head(pattern) = "" THEN 1 ELSE 0
    IN  \E w \in 1..Len(line) :
            \E k \in first..Len(line[w]) :
                /\ k + Len(segs) <= Len(line[w])
                /\ \A j \in 1..Len(segs) : line[w][k + j] = segs[j]

RECURSIVE AwkScan_no_flush(_, _, _, _, _, _)
\* AwkScan without the END block: the entry being gathered when the text
\* ends is not printed
AwkScan_no_flush(lines, exclude_paths, n, h, a, out) ==
    IF lines = <<>>
    THEN out
    ELSE LET line == Head(lines)
             start == IsHeaderLine(line)
             out1 == IF start /\ n /\ ~ExcludedFull(h, exclude_paths) THEN out \o a ELSE out
             n1 == n \/ start
             a1 == IF start THEN <<line>> ELSE IF n THEN Append(a, line) ELSE a
         IN  AwkScan_no_flush(Tail(lines), exclude_paths, n1, IF start THEN line ELSE h, a1, out1)

RECURSIVE AwkScan(_, _, _, _, _, _)
\* The awk script of full mode, line by line: n is set once a header was
\* seen, h is the header of the entry being gathered, a its lines; an entry
\* is printed when the next header or the end of the text is reached, unless
\* its header matches (with no exclusion pattern the script has no test).
AwkScan(lines, exclude_paths, n, h, a, out) ==
    IF lines = <<>>
    THEN IF n /\ ~ExcludedFull(h, exclude_paths) THEN out \o a ELSE out
    ELSE LET line == Head(lines)
             start == IsHeaderLine(line)
             out1 == IF start /\ n /\ ~ExcludedFull(h, exclude_paths) THEN out \o a ELSE out
             n1 == n \/ start
             a1 == IF start THEN <<line>> ELSE IF n THEN Append(a, line) ELSE a
         IN  AwkScan(Tail(lines), exclude_paths, n1, IF start THEN line ELSE h, a1, out1)

\* The words that begin with a tab: the modification time, and what follows
\* a tab inside a line of a compared file.
TabWords == {Stamp, W("\tr")}

RECURSIVE UpToStamp(_)
\* s/\t.*//: the line up to its first tab
UpToStamp(line) ==
    IF line = <<>> \/ Head(line) \in TabWords THEN <<>>
    ELSE <<Head(line)>> \o UpToStamp(Tail(line))

\* SedLine that strips nothing
SedLine_keep(line) == line

\* sed -e '/^\(---\|+++\) /s/\t.*//'
SedLine(line) ==
    IF Len(line) >= 2 /\ Head(line) \in {W("---"), W("+++")}
    THEN UpToStamp(line) ELSE line

Sed(lines) == [i \in 1..Len(lines) |-> SedLine(lines[i])]

RECURSIVE OmitScan(_, _, _, _)
OmitScan(lines, paths, skip, filtered_lines) ==
    IF lines = <<>> THEN filtered_lines
    ELSE LET line == Head(lines) IN
         IF IsHeaderLine(line)
         THEN LET skip1 == \E i \in 1..Len(paths) : Contains(line, paths[i])
              IN  OmitScan(Tail(lines), paths, skip1,
                           Append(filtered_lines,
                                  IF skip1 /\ Head(line) = W("diff") /\ Len(line) >= 2
                                  THEN Append(line, Omitted) ELSE line))
         ELSE OmitScan(Tail(lines), paths, skip,
                       IF skip THEN filtered_lines ELSE Append(filtered_lines, line))

\* _omit_diff_details with every entry marked, whatever its header begins with
_omit_diff_details_mark_all(diff_text, paths) ==
    LET RECURSIVE Scan(_, _, _)
        Scan(lines, skip, filtered_lines) ==
            IF lines = <<>> THEN filtered_lines
            ELSE LET line == Head(lines) IN
                 IF IsHeaderLine(line)
                 THEN LET skip1 == \E i \in 1..Len(paths) : Contains(line, paths[i])
                      IN  Scan(Tail(lines), skip1,
                               Append(filtered_lines,
                                      IF skip1 THEN Append(line, Omitted) ELSE line))
                 ELSE Scan(Tail(lines), skip,
                           IF skip THEN filtered_lines ELSE Append(filtered_lines, line))
    IN  Scan(diff_text, FALSE, <<>>)

_omit_diff_details(diff_text, paths) == OmitScan(diff_text, paths, FALSE, <<>>)

\* What the shell pipeline of a mode writes, and its exit status: that of
\* its last command (grep: 1 when it selects no line; awk, sed: 0).
Pipeline(call) ==
    IF call.diff_type = "rq"
    THEN IF call.exclude_paths = <<>>
         THEN [stdout |-> call.stdout, returncode |-> call.diff_rc]
         ELSE LET kept == SelectSeq(call.stdout,
                                    LAMBDA l : ~ExcludedStatus(l, call.exclude_paths))
              IN  [stdout |-> kept, returncode |-> IF kept = <<>> THEN 1 ELSE 0]
    ELSE IF call.diff_type = "urN"
    THEN [stdout |-> Sed(AwkScan(call.stdout, call.exclude_paths, FALSE, <<>>, <<>>, <<>>)),
          returncode |-> 0]
    ELSE [stdout |-> Sed(call.stdout), returncode |-> 0]

\* generate_diff_report with the exit status of the comparison tool itself
generate_diff_report_tool_status(call) ==
    IF call.diff_type \notin {"rq", "urN", "text"}
    THEN [output |-> <<>>, logged |-> "error", raised |-> FALSE]
    ELSE LET result == Pipeline(call) IN
         [ output |-> IF call.diff_type = "urN" /\ call.omit_diff_paths # <<>>
                      THEN _omit_diff_details(result.stdout, call.omit_diff_paths)
                      ELSE result.stdout,
           logged |-> IF call.diff_rc > 1 THEN "error" ELSE "info",
           raised |-> FALSE ]

\* generate_diff_report: the text returned, the level of the message logged
\* about the comparison, and whether the call raised.
generate_diff_report(call) ==
    IF call.diff_type \notin {"rq", "urN", "text"}
    THEN [output |-> <<>>, logged |-> "error", raised |-> FALSE]
    ELSE LET result == Pipeline(call) IN
         [ output |-> IF call.diff_type = "urN" /\ call.omit_diff_paths # <<>>
                      THEN _omit_diff_details(result.stdout, call.omit_diff_paths)
                      ELSE result.stdout,
           logged |-> IF result.returncode > 1 THEN "error" ELSE "info",
           raised |-> FALSE ]

----------------------------------------------------------------------------
(* The calls of generate_diff_report *)

KeepPath == <<"etc", "keep.txt">>
SkipPath == <<"etc", "skip.txt">>
ToolPath == <<"usr", "bin", "tool">>
TypePath == <<"var", "t">>

FullEntries == << TextEntry(KeepPath), TextEntry(SkipPath), BinaryEntry(ToolPath),
                  TypeEntry(TypePath) >>

StatusEntries == << <<DifferLine(KeepPath)>>, <<DifferLine(SkipPath)>>,
                    <<OnlyLine(<<"usr", "bin">>, "tool")>>, TypeEntry(TypePath) >>

\* The orders in which up to MaxEntries of four entries follow one another.
Orders == UNION { [1..n -> 1..4] : n \in 0..MaxEntries }

FullTexts == { Flatten([i \in 1..Len(o) |-> FullEntries[o[i]]]) : o \in Orders }
StatusTexts == { Flatten([i \in 1..Len(o) |-> StatusEntries[o[i]]]) : o \in Orders }
SingleTexts ==
    { <<>>, <<IdenticalLine(<<"ls.txt">>)>>,
      << <<W("---"), Under("cmd_outputs_base", <<"ls.txt">>), Stamp>>,
         <<W("+++"), Under("cmd_outputs_after", <<"ls.txt">>), Stamp>> >> \o HunkLines }

ExcludeLists == { <<>>, << <<"", "etc", "skip.txt">> >>, << <<"", "usr">>, <<"", "var">> >> }
OmitLists ==
    { <<>>, << <<"skip.txt">> >>,
      << <<"skip.txt">>, <<"bin", "tool">>, <<"", "var", "t">> >> }

\* The exit status of the comparison tool: 0 nothing differs, 1 differences,
\* 2 trouble (whatever it wrote before).
ToolStatus(diff_type, stdout) ==
    {2} \cup (IF stdout = <<>> THEN (IF diff_type = "text" THEN {} ELSE {0})
              ELSE IF diff_type = "text" /\ Len(stdout) = 1 THEN {0}
              ELSE {1})

Call(diff_type, stdout, diff_rc, exclude_paths, omit_diff_paths) ==
    [ diff_type |-> diff_type, stdout |-> stdout, diff_rc |-> diff_rc,
      exclude_paths |-> exclude_paths, omit_diff_paths |-> omit_diff_paths ]

DiffCalls ==
    { Call("urN", t, rc, e, o) : t \in FullTexts, rc \in 0..2, e \in ExcludeLists, o \in OmitLists }
    \cup { Call("rq", t, rc, e, <<>>) : t \in StatusTexts, rc \in 0..2, e \in ExcludeLists }
    \cup { Call("text", t, rc, <<>>, <<>>) : t \in SingleTexts, rc \in 0..2 }
    \cup { Call("html", <<>>, 0, <<>>, <<>>) }

InitDiff ==
    /\ files = <<>>
    /\ config_path = None
    /\ pc = "call"
    /\ loaded = Raised("none")
    /\ NoRun
    /\ args \in { c \in DiffCalls : c.diff_type = "html" \/ c.diff_rc \in ToolStatus(c.diff_type, c.stdout) }
    /\ ret = <<>>

GenerateDiffReport ==
    /\ pc = "call"
    /\ ret' = generate_diff_report(args)
    /\ pc' = "returned"
    /\ UNCHANGED <<args, files, config_path, loaded, container_id, idx, polls, exc, report,
                   base_out, after_out, written, trace>>

NextDiff == GenerateDiffReport

SpecDiff == InitDiff /\ [][NextDiff]_vars

----------------------------------------------------------------------------
(* C16 *)

Returned16 == pc = "returned" /\ args.diff_type \in {"rq", "urN", "text"}

\* The pipeline of the call ends with the comparison tool itself.
ToolIsLast == args.diff_type = "rq" /\ args.exclude_paths = <<>>

\* C16 as stated: whenever the comparison tool ends with an exit status
\* above 1, in any of the three modes, generate_diff_report logs an error,
\* raises nothing and returns the text the pipeline produced.
C16_ToolErrorLogged ==
    (Returned16 /\ args.diff_rc > 1) =>
        /\ ret.logged = "error"
        /\ ~ret.raised
        /\ args.omit_diff_paths = <<>> => ret.output = Pipeline(args).stdout

\* C16, what the code does: the call never raises and returns the text of the
\* pipeline; the error is logged exactly when the last command of the
\* pipeline ends above 1, which reflects the comparison tool only in status
\* mode without exclusions.
C16_PipelineStatusLogged ==
    Returned16 =>
        /\ ~ret.raised
        /\ args.omit_diff_paths = <<>> => ret.output = Pipeline(args).stdout
        /\ ret.logged = "error" <=> (ToolIsLast /\ args.diff_rc > 1)

\* the comparison of two capture files failed and nothing was logged as an error
C16_Witness ==
    /\ Returned16
    /\ args.diff_type = "text"
    /\ args.diff_rc = 2
    /\ ret.logged = "info"
    /\ ret.output = <<>>

----------------------------------------------------------------------------
(* The entries of a text *)

\* The entry that begins with the header at line i: the lines up to the
\* next header.
EntryFrom(text, i) ==
    LET last == CHOOSE j \in i..Len(text) :
                    /\ \A k \in (i + 1)..j : ~IsHeaderLine(text[k])
                    /\ j = Len(text) \/ IsHeaderLine(text[j + 1])
    IN  SubSeq(text, i, last)

RECURSIVE EntriesFrom(_, _)
EntriesFrom(text, i) ==
    IF i > Len(text) THEN <<>>
    ELSE IF IsHeaderLine(text[i]) THEN <<EntryFrom(text, i)>> \o EntriesFrom(text, i + 1)
    ELSE EntriesFrom(text, i + 1)

EntriesOf(text) == EntriesFrom(text, 1)

ReturnedFull == pc = "returned" /\ args.diff_type = "urN"

\* The entries full mode emits before omission: the text of the pipeline.
Emitted == EntriesOf(Pipeline(args).stdout)

HasOmitPattern(header) ==
    \E i \in 1..Len(args.omit_diff_paths) : Contains(header, args.omit_diff_paths[i])

----------------------------------------------------------------------------
(* C17 *)

\* C17 as stated: every emitted entry whose header contains an omission
\* pattern is output as its header with " (omitted)" appended and no body
\* line; every other entry is output unchanged.
C17_OmittedMarked ==
    (ReturnedFull /\ args.omit_diff_paths # <<>>) =>
        LET out == EntriesOf(ret.output) IN
        /\ Len(out) = Len(Emitted)
        /\ \A k \in 1..Len(Emitted) :
              IF HasOmitPattern(Emitted[k][1])
              THEN out[k] = << Append(Emitted[k][1], Omitted) >>
              ELSE out[k] = Emitted[k]

\* C17: in full mode with omission patterns every emitted entry whose header
\* contains a pattern is output without its body lines, its header followed
\* by " (omitted)" when the header is a `diff ` line and unchanged when it is
\* any other line that begins with a letter (`Binary files ... differ`,
\* `File ... is a ...`); every entry whose header contains no pattern is
\* output unchanged, header and body; the entries keep their order.
C17_OmittedDiffHeadersMarked ==
    (ReturnedFull /\ args.omit_diff_paths # <<>>) =>
        LET out == EntriesOf(ret.output) IN
        /\ Len(out) = Len(Emitted)
        /\ Flatten(out) = ret.output
        /\ \A k \in 1..Len(Emitted) :
              IF HasOmitPattern(Emitted[k][1])
              THEN out[k] = << IF Head(Emitted[k][1]) = W("diff")
                               THEN Append(Emitted[k][1], Omitted)
                               ELSE Emitted[k][1] >>
              ELSE out[k] = Emitted[k]

\* one entry marked, one binary entry named by a pattern and left as it
\* is, one entry kept with its --- and +++ lines
C17_Witness ==
    /\ ReturnedFull
    /\ args.exclude_paths = <<>>
    /\ args.stdout = TextEntry(SkipPath) \o BinaryEntry(ToolPath) \o TextEntry(KeepPath)
    /\ Len(args.omit_diff_paths) = 3
    /\ ret.output = << Append(DiffHeader(SkipPath), Omitted) >>
                    \o BinaryEntry(ToolPath)
                    \o Sed(TextEntry(KeepPath))

----------------------------------------------------------------------------
(* C18 *)

\* The path a header names in the base tree.
HeaderPath(header) == IF Head(header) = W("File") THEN header[2] ELSE header[3]

\* The path the header names matches an exclusion pattern.
PathExcluded(header) ==
    \E i \in 1..Len(args.exclude_paths) :
        WordMatches(HeaderPath(header), args.exclude_paths[i])

\* The entries the comparison tool wrote.
Written18 == EntriesOf(args.stdout)

\* What becomes of a kept entry: its time stamps stripped, then omission.
AsOutput(entry) ==
    IF args.omit_diff_paths # <<>> /\ HasOmitPattern(entry[1])
    THEN << IF Head(entry[1]) = W("diff") THEN Append(entry[1], Omitted) ELSE entry[1] >>
    ELSE Sed(entry)

\* C18 as stated: in full mode with exclusion patterns, the output holds, in
\* their order, exactly the entries whose header path matches no exclusion
\* pattern, the last one included, each complete; an excluded entry is
\* absent also when omission patterns are given.
C18_ExcludedAbsent ==
    (ReturnedFull /\ args.exclude_paths # <<>>) =>
        LET kept == SelectSeq(Written18, LAMBDA e : ~PathExcluded(e[1]))
            out == EntriesOf(ret.output)
        IN  /\ Len(out) = Len(kept)
            /\ \A k \in 1..Len(kept) : out[k] = AsOutput(kept[k])

\* the header has the named path as its third word
ThirdWordHeader(header) == Head(header) \in {W("diff"), W("Binary")}

\* C18, what the code does: the entries dropped are those whose header has a
\* path matching an exclusion pattern as its third word (`diff` and `Binary
\* files` headers); every other entry is output complete and in order, the
\* last one included, also under omission.
C18_ThirdWordExcluded ==
    (ReturnedFull /\ args.exclude_paths # <<>>) =>
        LET kept == SelectSeq(Written18,
                              LAMBDA e : ~(ThirdWordHeader(e[1]) /\ PathExcluded(e[1])))
            out == EntriesOf(ret.output)
        IN  /\ Len(out) = Len(kept)
            /\ Flatten(out) = ret.output
            /\ \A k \in 1..Len(kept) : out[k] = AsOutput(kept[k])

\* the excluded entry is the last of the text; omission patterns are given
C18_Witness ==
    /\ ReturnedFull
    /\ args.exclude_paths = << <<"", "etc", "skip.txt">> >>
    /\ args.omit_diff_paths = << <<"skip.txt">> >>
    /\ args.stdout = TextEntry(KeepPath) \o TextEntry(SkipPath)
    /\ ret.output = Sed(TextEntry(KeepPath))

----------------------------------------------------------------------------
(* envdiff/cli.py: main, analysis branch *)

\* The except clause of main that handles an exception: the first whose
\* class the exception belongs to (RecursionError is a RuntimeError,
\* everything else falls to the last clause).
Handler(error) ==
    IF error \in {"FileNotFoundError", "CalledProcessError", "RuntimeError"} THEN error
    ELSE IF error = "RecursionError" THEN "RuntimeError"
    ELSE "Exception"

\* What the process ended with: its exit status, the level and the stream
\* on which the error was reported.
Ended(status, error) ==
    [ status |-> status,
      logged |-> IF error = "none" THEN "info" ELSE "critical",
      handler |-> IF error = "none" THEN "none" ELSE Handler(error),
      printed |-> error # "none" ]

\* CliExit leaving with status 1 after an exception
CliExit_failing ==
    /\ pc \in {"done", "raised"}
    /\ pc' = "exited"
    /\ ret' = Ended(IF exc = "none" THEN 0 ELSE 1, exc)
    /\ UNCHANGED <<args, files, config_path, loaded, container_id, idx, polls, exc, report,
                   base_out, after_out, written, trace>>

\* Lines 72-95: run_analysis returned or raised; every exception is caught,
\* logged as critical and printed, and main returns: the process ends with
\* status 0.
CliExit ==
    /\ pc \in {"done", "raised"}
    /\ pc' = "exited"
    /\ ret' = Ended(0, exc)
    /\ UNCHANGED <<args, files, config_path, loaded, container_id, idx, polls, exc, report,
                   base_out, after_out, written, trace>>

NextCli == NextRun \/ CliExit

SpecCli == InitRun /\ [][NextCli]_vars

----------------------------------------------------------------------------
(* C19 *)

\* C19 as stated: when the analysis ends with a fatal error the process ends
\* with a non-zero exit status, the error logged and printed on standard
\* output.
C19_NonZeroOnFatal ==
    (pc = "exited" /\ exc # "none") =>
        /\ ret.status # 0
        /\ ret.logged = "critical"
        /\ ret.printed

\* C19, what the code does: every fatal error is logged as critical, by the
\* clause of its class, and printed on standard output, and the process
\* ends with status 0, as it does after a run without error.
C19_ZeroOnFatal ==
    pc = "exited" =>
        /\ ret.status = 0
        /\ exc # "none" =>
              /\ ret.logged = "critical"
              /\ ret.printed
              /\ written = 0
              /\ exc \in {"FileNotFoundError", "CalledProcessError", "RuntimeError"}
                    => ret.handler = exc
        /\ exc = "none" => written = 1 /\ ~ret.printed

\* the container never became ready: RuntimeError, reported, status 0
C19_Witness ==
    /\ pc = "exited"
    /\ exc = "RuntimeError"
    /\ trace[Len(trace) - 2] = Event("wait_running", "cid", "timeout")
    /\ ret.status = 0
    /\ ret.printed

\* ---------------------------------------------------------------------
\* report_formatter.py: the text renderer
\* ---------------------------------------------------------------------

\* most keys a definitions object of the enumerated reports holds
MaxKeys == 3

\* a JSON object as json.load returns it: its fields in file order, every
\* key once
Obj(fields) == [k |-> "object", v |-> fields]

Field(key, value) == [key |-> key, value |-> value]

JKeys(o) == [i \in 1..Len(o.v) |-> o.v[i].key]

JHas(o, key) == \E i \in 1..Len(o.v) : o.v[i].key = key

JGet(o, key) == o.v[CHOOSE i \in 1..Len(o.v) : o.v[i].key = key].value

\* value.get(key, []) of an object
JGetList(o, key) == IF JHas(o, key) THEN JGet(o, key) ELSE L(<<>>)

\* truth value of a JSON value: false for "", [] and {}
JTruthy(value) == IF value.k = "scalar" THEN value.v # "" ELSE value.v # <<>>

\* a line of text: the number of its leading spaces and the rest as words
Ln(indent, text) == [indent |-> indent, text |-> text]

\* _indent_block: every line of the text is prefixed by indent spaces
_indent_block(text, indent) ==
    [i \in 1..Len(text) |-> Ln(text[i].indent + indent, text[i].text)]

\* the elements of a JSON array or object, one after the other, each but
\* the last followed by a comma
Separated(blocks) ==
    Flatten([i \in 1..Len(blocks) |->
        IF i < Len(blocks)
        THEN [j \in 1..Len(blocks[i]) |->
                 IF j < Len(blocks[i]) THEN blocks[i][j]
                 ELSE Ln(blocks[i][j].indent, Append(blocks[i][j].text, ","))]
        ELSE blocks[i]])

\* the first line of a member of an object carries its quoted key
Keyed(key, block) ==
    <<Ln(block[1].indent, <<"\"", key, "\": ">> \o block[1].text)>> \o Tail(block)

\* json.dumps(value, indent=2, ensure_ascii=False), as lines
RECURSIVE json_dumps(_, _)
json_dumps(value, level) ==
    IF value.k = "scalar" THEN <<Ln(level, <<"\"", value.v, "\"">>)>>
    ELSE IF value.k = "list"
    THEN IF value.v = <<>> THEN <<Ln(level, <<"[]">>)>>
         ELSE <<Ln(level, <<"[">>)>>
              \o Separated([i \in 1..Len(value.v) |-> json_dumps(value.v[i], level + 2)])
              \o <<Ln(level, <<"]">>)>>
    ELSE IF value.v = <<>> THEN <<Ln(level, <<"{}">>)>>
         ELSE <<Ln(level, <<"{">>)>>
              \o Separated([i \in 1..Len(value.v) |->
                     Keyed(value.v[i].key, json_dumps(value.v[i].value, level + 2))])
              \o <<Ln(level, <<"}">>)>>

\* the keys in the order of the listing (lines 32-40)
ordered_keys == <<"base_image", "prepare", "target_dirs", "exclude_paths", "omit_diff_paths">>

OccursIn(key, keys) == \E i \in 1..Len(keys) : keys[i] = key

\* renderer variant: the keys are listed in the report's own order
DefinitionKeys_report_order(definitions) == JKeys(definitions)

DefinitionKeys(definitions) ==
    LET keys == SelectSeq(ordered_keys, LAMBDA k : JHas(definitions, k))
    IN  keys \o SelectSeq(JKeys(definitions), LAMBDA k : ~OccursIn(k, keys))

\* main_operation without its commands (line 46)
WithoutCommands(value) ==
    Obj(SelectSeq(value.v, LAMBDA f : f.key # "commands"))

\* the value that is listed under a key (lines 42-48)
Shown(key, value) ==
    IF key = "main_operation" /\ value.k = "object" THEN WithoutCommands(value) ELSE value

Skipped(key, value) ==
    \/ key = "command_diff"
    \/ key = "main_operation" /\ value.k = "object" /\ WithoutCommands(value).v = <<>>

\* a copy_files item (lines 56-62)
CopyLine(item) ==
    IF item.k = "object"
    THEN Ln(4, <<"- ", IF JHas(item, "src") THEN JGet(item, "src").v ELSE "",
                 " -> ", IF JHas(item, "dest") THEN JGet(item, "dest").v ELSE "">>)
    ELSE Ln(4, <<"- ", item.v>>)

\* a value rendered generically (lines 71-75 and 80-84)
Generic(value) ==
    IF value.k = "scalar" THEN <<Ln(2, <<value.v>>)>>
    ELSE _indent_block(json_dumps(value, 0), 2)

\* the lines under "- prepare:" (lines 52-75)
PrepareLines(value) ==
    LET copy_files == JGetList(value, "copy_files")
        commands == JGetList(value, "commands")
        extra == SelectSeq(value.v, LAMBDA f : f.key \notin {"copy_files", "commands"})
    IN  (IF JTruthy(copy_files)
         THEN <<Ln(2, <<"copy_files:">>)>>
              \o [i \in 1..Len(copy_files.v) |-> CopyLine(copy_files.v[i])]
         ELSE <<>>)
        \o (IF JTruthy(commands)
            THEN <<Ln(2, <<"commands:">>)>>
                 \o [i \in 1..Len(commands.v) |-> Ln(4, <<"- ", commands.v[i].v>>)]
            ELSE <<>>)
        \o Flatten([i \in 1..Len(extra) |->
               IF extra[i].value.k = "scalar"
               THEN <<Ln(2, <<extra[i].key, ": ", extra[i].value.v>>)>>
               ELSE _indent_block(json_dumps(extra[i].value, 0), 2)])

\* the heading of a key and the lines under it (lines 50-84)
KeyLines(key, value) ==
    <<Ln(0, <<"- ", key, ":">>)>>
    \o (IF key = "prepare" /\ value.k = "object" THEN PrepareLines(value)
        ELSE IF key \in {"target_dirs", "exclude_paths", "omit_diff_paths"} /\ value.k = "list"
        THEN [i \in 1..Len(value.v) |-> Ln(2, <<"- ", value.v[i].v>>)]
        ELSE Generic(value))

Blank == Ln(0, <<>>)

\* the definitions block (lines 29-85)
DefinitionLines(definitions) ==
    IF ~JTruthy(definitions) THEN <<>>
    ELSE LET keys == DefinitionKeys(definitions)
         IN  <<Ln(0, <<"Definitions:">>)>>
             \o Flatten([i \in 1..Len(keys) |->
                    IF Skipped(keys[i], JGet(definitions, keys[i])) THEN <<>>
                    ELSE KeyLines(keys[i], Shown(keys[i], JGet(definitions, keys[i])))])
             \o <<Blank>>

\* the metadata block (lines 17-27); a text is a sequence of lines
MetaLines(meta) ==
    <<Ln(0, <<"Report generated on: ",
              IF JHas(meta, "generated_on") THEN JGet(meta, "generated_on").v ELSE "unknown">>),
      Ln(0, <<"Container tool: ",
              IF JHas(meta, "container_tool") THEN JGet(meta, "container_tool").v ELSE "unknown">>)>>
    \o (IF JHas(meta, "title") /\ JTruthy(JGet(meta, "title"))
        THEN <<Ln(0, <<"Title: ", JGet(meta, "title").v>>)>> ELSE <<>>)
    \o (IF JHas(meta, "description") /\ JGet(meta, "description") # <<>>
        THEN <<Ln(0, <<"Description:">>)>> \o _indent_block(JGet(meta, "description"), 2)
        ELSE <<>>)
    \o <<Blank>>

\* the results block (lines 87-97)
ResultLines(results) ==
    <<Ln(0, <<"Main operation results:">>)>>
    \o Flatten([i \in 1..Len(results) |->
           <<Ln(0, <<"- ", results[i].command, " (exit code ", results[i].return_code, ")">>)>>
           \o (IF results[i].stdout # <<>>
               THEN <<Ln(2, <<"stdout:">>)>> \o _indent_block(results[i].stdout, 4) ELSE <<>>)
           \o (IF results[i].stderr # <<>>
               THEN <<Ln(2, <<"stderr:">>)>> \o _indent_block(results[i].stderr, 4) ELSE <<>>)])
    \o <<Blank>>

\* the filesystem blocks (lines 101-114)
RqLines(items) ==
    <<Ln(0, <<"Filesystem diff (rq):">>)>>
    \o [i \in 1..Len(items) |-> Ln(2, <<"- ">> \o items[i].text)]
    \o <<Blank>>

UrnLines(items) ==
    <<Ln(0, <<"Filesystem diff (urN):">>)>>
    \o Flatten([i \in 1..Len(items) |->
           IF items[i] = <<>> THEN <<>>
           ELSE <<Ln(2, <<"- ">> \o items[i][1].text)>> \o _indent_block(Tail(items[i]), 4)])
    \o <<Blank>>

\* the command blocks (lines 116-123)
CommandLines(entries) ==
    Flatten([i \in 1..Len(entries) |->
        <<Ln(0, <<"Command diff for: ", entries[i].command,
                  " (file: ", entries[i].diff_file, ")">>)>>
        \o (IF entries[i].diff_content # <<>>
            THEN _indent_block(entries[i].diff_content, 2)
            ELSE <<Ln(2, <<"No diff content available.">>)>>)
        \o <<Blank>>])

\* rstrip of the joined lines (line 125): the blank lines at the end go
RECURSIVE Rstrip(_)
Rstrip(lines) ==
    IF lines # <<>> /\ \A i \in 1..Len(lines[Len(lines)].text) : lines[Len(lines)].text[i] = ""
    THEN Rstrip(SubSeq(lines, 1, Len(lines) - 1))
    ELSE lines

\* the text of a report, as its lines
json_report_to_text(data) ==
    Rstrip(MetaLines(data.report_metadata)
           \o DefinitionLines(data.definitions)
           \o ResultLines(data.main_operation_results)
           \o RqLines(data.diff_reports.filesystem_rq)
           \o UrnLines(data.diff_reports.filesystem_urN)
           \o CommandLines(data.diff_reports.command_outputs))

\* the values the keys of the enumerated definitions hold, by variant
DefinitionValue(key, n) ==
    CASE key = "base_image" -> S("alpine:latest")
      [] key = "prepare" ->
            IF n = 1
            THEN Obj(<<Field("commands", L(<<S("setup")>>))>>)
            ELSE Obj(<<Field("copy_files", L(<<Obj(<<Field("src", S("a")), Field("dest", S("/b"))>>)>>)),
                       Field("user", S("root"))>>)
      [] key = "target_dirs" -> L(<<S("/a")>>)
      [] key = "exclude_paths" -> L(<<S("/b")>>)
      [] key = "omit_diff_paths" -> L(<<S("c")>>)
      [] key = "command_diff" ->
            L(<<Obj(<<Field("command", S("ls")), Field("outfile", S("ls.txt"))>>)>>)
      [] key = "main_operation" ->
            CASE n = 1 -> Obj(<<Field("commands", L(<<S("echo hi")>>))>>)
              [] n = 2 -> Obj(<<Field("commands", L(<<S("echo hi")>>)), Field("shell", S("sh"))>>)
              [] n = 3 -> Obj(<<Field("shell", S("sh")), Field("commands", L(<<S("echo hi")>>))>>)
              [] n = 4 -> Obj(<<>>)
              [] OTHER -> S("echo hi")
      [] OTHER -> S("x")

Variants(key) ==
    CASE key = "prepare" -> 1..2
      [] key = "main_operation" -> 1..5
      [] OTHER -> {1}

DefinitionKeySet ==
    {"base_image", "prepare", "target_dirs", "exclude_paths", "omit_diff_paths",
     "command_diff", "main_operation", "note", "extra"}

\* the keys, each with a variant of its value, of the definitions objects
\* of at most MaxKeys keys, in every key order
DefinitionChoices ==
    LET choice == UNION { { [key |-> key, n |-> n] : n \in Variants(key) } : key \in DefinitionKeySet }
    IN  UNION { { f \in [1..n -> choice] : \A i, j \in 1..n : i # j => f[i].key # f[j].key }
                : n \in 0..MaxKeys }

Definitions(choice) ==
    Obj([i \in 1..Len(choice) |-> Field(choice[i].key, DefinitionValue(choice[i].key, choice[i].n))])

\* the other parts of the report of test_json_report_to_text, and of an
\* empty report
TestParts ==
    [report_metadata |-> Obj(<<Field("generated_on", S("2020-01-01")),
                               Field("container_tool", S("podman")),
                               Field("title", S("My run")),
                               Field("description", <<Ln(0, <<"line1">>), Ln(0, <<"line2">>)>>)>>),
     main_operation_results |->
         <<[command |-> "echo hi", stdout |-> <<Ln(0, <<"hi">>)>>, stderr |-> <<>>,
            return_code |-> "0"]>>,
     diff_reports |->
         [filesystem_rq |-> <<Ln(0, <<"Only in after: new.txt">>)>>,
          filesystem_urN |-> << <<Ln(0, <<"diff -urN a b">>)>> >>,
          command_outputs |->
              <<[command |-> "ls", diff_file |-> "ls.txt",
                 diff_content |-> <<Ln(0, <<"--- a">>), Ln(0, <<"+++ b">>)>>]>>]]

EmptyParts ==
    [report_metadata |-> Obj(<<>>),
     main_operation_results |-> <<>>,
     diff_reports |-> [filesystem_rq |-> <<>>, filesystem_urN |-> <<>>, command_outputs |-> <<>>]]

Parts(name) == IF name = "test" THEN TestParts ELSE EmptyParts

ReportOf(parts, definitions) ==
    [report_metadata |-> parts.report_metadata,
     definitions |-> definitions,
     main_operation_results |-> parts.main_operation_results,
     diff_reports |-> parts.diff_reports]

InitRender ==
    /\ files = <<>>
    /\ config_path = None
    /\ pc = "render"
    /\ loaded = Raised("none")
    /\ NoRun
    /\ \E name \in {"test", "empty"}, choice \in DefinitionChoices :
           args = ReportOf(Parts(name), Definitions(choice))
    /\ ret = <<>>

RenderReport ==
    /\ pc = "render"
    /\ ret' = json_report_to_text(args)
    /\ pc' = "rendered"
    /\ UNCHANGED <<args, files, config_path, loaded, container_id, idx, polls, exc, report,
                   base_out, after_out, written, trace>>

NextRender == RenderReport

SpecRender == InitRender /\ [][NextRender]_vars

\* ---------------------------------------------------------------------
\* C20: the keys the definitions block lists
\* ---------------------------------------------------------------------

LineAt(lines, text) ==
    IF \E i \in 1..Len(lines) : lines[i] = Ln(0, text)
    THEN CHOOSE i \in 1..Len(lines) :
             lines[i] = Ln(0, text) /\ \A j \in 1..(i - 1) : lines[j] # Ln(0, text)
    ELSE 0

\* the lines of the definitions block, after its title
DefinitionsBlock(lines) ==
    IF LineAt(lines, <<"Definitions:">>) = 0 THEN <<>>
    ELSE SubSeq(lines, LineAt(lines, <<"Definitions:">>) + 1,
                LineAt(lines, <<"Main operation results:">>) - 1)

IsHeading(line) == line.indent = 0 /\ line.text # <<>> /\ line.text[1] = "- "

\* the keys the block lists, in the order of their headings
Listed(lines) ==
    LET headings == SelectSeq(DefinitionsBlock(lines), IsHeading)
    IN  [i \in 1..Len(headings) |-> headings[i].text[2]]

\* the lines under the heading of a key, up to the next heading
UnderKey(lines, key) ==
    LET block == DefinitionsBlock(lines)
        at == CHOOSE i \in 1..Len(block) : block[i] = Ln(0, <<"- ", key, ":">>)
        rest == SubSeq(block, at + 1, Len(block))
        stop == IF \E i \in 1..Len(rest) : IsHeading(rest[i]) \/ rest[i] = Blank
                THEN CHOOSE i \in 1..Len(rest) :
                         /\ IsHeading(rest[i]) \/ rest[i] = Blank
                         /\ \A j \in 1..(i - 1) : ~(IsHeading(rest[j]) \/ rest[j] = Blank)
                ELSE Len(rest) + 1
    IN  SubSeq(rest, 1, stop - 1)

Mentions(lines, word) ==
    \E i \in 1..Len(lines) : \E j \in 1..Len(lines[i].text) : lines[i].text[j] = word

PlaceIn(keys, key) == CHOOSE i \in 1..Len(keys) : keys[i] = key

\* the place of a key in the preferred order, after it for any other key
Rank(key) == IF OccursIn(key, ordered_keys) THEN PlaceIn(ordered_keys, key)
             ELSE Len(ordered_keys) + 1

\* main_operation has something to list besides its commands
HasOtherFields(value) ==
    value.k = "object" => \E i \in 1..Len(value.v) : value.v[i].key # "commands"

\* C20: the definitions block lists the preferred keys that are present
\* in the order base_image, prepare, target_dirs, exclude_paths,
\* omit_diff_paths, then every other key in the order of the report, each
\* key once, whatever the order of the keys in the report; command_diff
\* is never listed, and main_operation is listed without its commands
\* field, and not at all when it has no other field.
C20_DefinitionsKeyOrder ==
    pc = "rendered" =>
        LET definitions == args.definitions
            keys == JKeys(definitions)
            listed == Listed(ret)
        IN  /\ \A i, j \in 1..Len(listed) : listed[i] = listed[j] => i = j
            /\ \A key \in DefinitionKeySet :
                   OccursIn(key, listed) <=>
                       /\ OccursIn(key, keys)
                       /\ key # "command_diff"
                       /\ key = "main_operation" => HasOtherFields(JGet(definitions, key))
            /\ \A i, j \in 1..Len(listed) : i < j =>
                   /\ Rank(listed[i]) <= Rank(listed[j])
                   /\ Rank(listed[i]) = Rank(listed[j]) =>
                          PlaceIn(keys, listed[i]) < PlaceIn(keys, listed[j])
            /\ ~Mentions(DefinitionsBlock(ret), "command_diff")
            /\ OccursIn("main_operation", listed) =>
                   LET value == JGet(definitions, "main_operation")
                       under == UnderKey(ret, "main_operation")
                   IN  /\ ~Mentions(under, "commands")
                       /\ under # <<>>
                       /\ value.k = "object" =>
                              \A i \in 1..Len(value.v) :
                                  value.v[i].key # "commands" => Mentions(under, value.v[i].key)
                       /\ value.k = "scalar" => under = <<Ln(2, <<value.v>>)>>

\* a report whose definitions hold main_operation (commands and shell),
\* command_diff and base_image, in this order: base_image is listed
\* first, then main_operation with its shell only
C20_Witness ==
    /\ pc = "rendered"
    /\ JKeys(args.definitions) = <<"main_operation", "command_diff", "base_image">>
    /\ JKeys(JGet(args.definitions, "main_operation")) = <<"commands", "shell">>
    /\ Listed(ret) = <<"base_image", "main_operation">>
    /\ Mentions(UnderKey(ret, "main_operation"), "shell")

----------------------------------------------------------------------------
(* ContainerManager.start called on its own: container.py lines 55-76 *)

\* the largest timeout a caller of start passes
MaxTimeout == 4

\* what one inspect of the container can give: the word it prints with exit
\* status 0, a non-zero exit status, or a tool that cannot be launched
InspectOutcomes == {"true", "false", "nonzero", "oserror"}

\* start raises to its caller
RaiseStart(error) == pc' = "raised" /\ exc' = error /\ polls' = polls

InitStart ==
    /\ files = <<>>
    /\ config_path = None
    /\ loaded = Raised("none")
    /\ pc = "start_call"
    /\ container_id \in {"None", "cid"}
    /\ idx = 0
    /\ polls = 0
    /\ exc = "none"
    /\ report = NoReport
    /\ base_out = <<>>
    /\ after_out = <<>>
    /\ written = 0
    /\ trace = <<>>
    /\ args \in [timeout : 0..MaxTimeout]
    /\ ret = <<>>

\* Lines 57-61: the guard on the container id, then the start command,
\* check=True
StartCommand ==
    /\ pc = "start_call"
    /\ IF container_id = "None"
       THEN RaiseStart("RuntimeError") /\ trace' = trace
       ELSE \E o \in Outcomes :
               /\ Log(Event("start", container_id, o))
               /\ IF RunChecked(o) = "none"
                  THEN pc' = "wait" /\ exc' = exc /\ polls' = 0
                  ELSE RaiseStart(RunChecked(o))
    /\ UNCHANGED <<args, ret, files, config_path, loaded, container_id, idx, report,
                   base_out, after_out, written>>

\* InspectRunning returning as soon as an inspect exits with status 0
InspectRunning_any_zero ==
    /\ pc = "wait"
    /\ IF polls < args.timeout
       THEN \E o \in InspectOutcomes :
               /\ Log(Event("inspect", container_id, o))
               /\ IF o \in {"true", "false"} THEN pc' = "started" /\ exc' = exc /\ polls' = polls
                  ELSE IF o = "oserror" THEN RaiseStart("FileNotFoundError")
                  ELSE pc' = "sleep" /\ exc' = exc /\ polls' = polls
       ELSE RaiseStart("RuntimeError") /\ trace' = trace
    /\ UNCHANGED <<args, ret, files, config_path, loaded, container_id, idx, report,
                   base_out, after_out, written>>

\* Lines 64-70 and 76: one turn of the loop up to its inspect (check=False),
\* or the end of the loop
InspectRunning ==
    /\ pc = "wait"
    /\ IF polls < args.timeout
       THEN \E o \in InspectOutcomes :
               /\ Log(Event("inspect", container_id, o))
               /\ IF o = "true" THEN pc' = "started" /\ exc' = exc /\ polls' = polls
                  ELSE IF o = "oserror" THEN RaiseStart("FileNotFoundError")
                  ELSE pc' = "sleep" /\ exc' = exc /\ polls' = polls
       ELSE RaiseStart("RuntimeError") /\ trace' = trace
    /\ UNCHANGED <<args, ret, files, config_path, loaded, container_id, idx, report,
                   base_out, after_out, written>>

\* Line 75: a second of sleep ends the turn
SleepOneSecond ==
    /\ pc = "sleep"
    /\ Log(Event("sleep", container_id, "1"))
    /\ pc' = "wait"
    /\ polls' = polls + 1
    /\ UNCHANGED <<args, ret, files, config_path, loaded, container_id, idx, exc, report,
                   base_out, after_out, written>>

NextStart == StartCommand \/ InspectRunning \/ SleepOneSecond

\* every command start issues ends, and so does every sleep
SpecStart == InitStart /\ [][NextStart]_vars /\ WF_vars(NextStart)

----------------------------------------------------------------------------
(* C21 *)

Inspects == Events({"inspect"})

StartEnded == pc \in {"started", "raised"}

LastEvent == trace[Len(trace)]

\* the wait ran out: timeout inspects, none of them the last word
TimedOut ==
    /\ exc = "RuntimeError"
    /\ Len(Inspects) = args.timeout
    /\ \A i \in 1..Len(Inspects) : Inspects[i].res \in {"false", "nonzero"}
    /\ Len(Events({"sleep"})) = args.timeout

\* C21 as stated: whenever start on a created container does not return
\* normally, it raises RuntimeError after its last, timeout-th, poll.
C21_RuntimeErrorOtherwise ==
    (pc = "raised" /\ container_id # "None") => TimedOut

C21_StartSafe ==
    /\ Len(Inspects) <= args.timeout
    /\ Len(Events({"sleep"})) = polls
    /\ polls <= Len(Inspects) /\ Len(Inspects) <= polls + 1
    /\ container_id = "None" => trace = <<>>
    /\ trace # <<>> => trace[1].ev = "start" /\ Len(Events({"start"})) = 1
    /\ \A i \in 1..Len(trace) :
          trace[i].ev = "inspect" /\ trace[i].res = "true" => i = Len(trace) /\ pc = "started"
    /\ pc = "started" => LastEvent = Event("inspect", container_id, "true") /\ exc = "none"
    /\ pc = "raised" =>
          \/ container_id = "None" /\ exc = "RuntimeError"
          \/ /\ LastEvent.ev = "start"
             /\ LastEvent.res # "ok"
             /\ exc = RunChecked(LastEvent.res)
          \/ /\ LastEvent = Event("inspect", container_id, "oserror")
             /\ exc = "FileNotFoundError"
          \/ /\ container_id # "None"
             /\ trace[1].res = "ok"
             /\ TimedOut
    /\ ~StartEnded => exc = "none"

\* C21: start always ends.  Without a container it raises RuntimeError and
\* issues no command.  Otherwise it issues the start command, then at most
\* timeout inspects with a second of sleep after each that does not end the
\* wait; it returns normally exactly when an inspect exits 0 and prints
\* true, at that inspect; it raises RuntimeError after timeout inspects
\* that did not; and it raises at once the error of a start command that
\* fails or of a command that cannot be launched.
C21_StartTerminates == []C21_StartSafe /\ <>StartEnded

\* two polls that do not report the container running - one exits non-zero,
\* one prints false - use up a timeout of 2: RuntimeError
C21_Witness ==
    /\ pc = "raised"
    /\ exc = "RuntimeError"
    /\ args.timeout = 2
    /\ Inspects = <<Event("inspect", "cid", "nonzero"), Event("inspect", "cid", "false")>>

----------------------------------------------------------------------------
(* run_analysis lines 204-216 and 237: the text of a comparison as it enters
   the report, for texts with hunk bodies of every kind of line *)

\* most lines of the hunk body of the first entry of an enumerated text
MaxBody == 2

\* Lines of a hunk body: empty, context, removed, added, the note on a
\* missing newline, a line that begins with a digit, and the removed line
\* "-- q<tab>r" and the added line "++ q<tab>r" of the compared files.
RemovedDashes == <<W("---"), W("q"), W("\tr")>>
AddedPluses == <<W("+++"), W("q"), W("\tr")>>

BodyLines ==
    << <<>>, <<W(""), W("ctx")>>, <<W("-foo")>>, <<W("+bar")>>,
       <<W("\\"), W("No"), W("newline")>>, <<W("1c1")>>, RemovedDashes, AddedPluses >>

\* re.split(r"(?=^[a-zA-Z].+$)", ...): the text is cut before every line
\* that begins with a letter and has a second character
SplitsBefore(line) ==
    /\ IsHeaderLine(line)
    /\ Len(line) > 1 \/ Len(Head(line)) > 1 \/ Head(line)[1] \notin {"a", "b"}

RECURSIVE SplitScan(_, _, _)
\* the pieces of the split; filter(None, ...) drops an empty one
SplitScan(lines, piece, pieces) ==
    IF lines = <<>>
    THEN IF piece = <<>> THEN pieces ELSE Append(pieces, piece)
    ELSE IF SplitsBefore(Head(lines))
    THEN SplitScan(Tail(lines), <<Head(lines)>>,
                   IF piece = <<>> THEN pieces ELSE Append(pieces, piece))
    ELSE SplitScan(Tail(lines), Append(piece, Head(lines)), pieces)

\* SplitEntries without the cut: the whole text is one entry
SplitEntries_whole(lines) == IF lines = <<>> THEN <<>> ELSE <<lines>>

\* Lines 211-216: the entries of filesystem_urN.  l[:-1] takes from each
\* piece the newline that ends its last line, so a piece is its lines.
SplitEntries(lines) == SplitScan(lines, <<>>, <<>>)

\* The first entry of an enumerated full text: a text entry with the given
\* hunk body, or an entry of one line.
FirstEntry(kind, body) ==
    IF kind = "text"
    THEN <<DiffHeader(KeepPath), FromLine(KeepPath), ToLine(KeepPath), <<W("@@")>> >>
         \o [i \in 1..Len(body) |-> BodyLines[body[i]]]
    ELSE BinaryEntry(KeepPath)

\* What follows the first entry: nothing, or one more entry.
SecondEntry(kind) ==
    CASE kind = "text" -> TextEntry(SkipPath)
      [] kind = "binary" -> BinaryEntry(ToolPath)
      [] kind = "type" -> TypeEntry(TypePath)
      [] OTHER -> <<>>

\* What `diff -su` writes for two files that differ
SingleText(body) ==
    << <<W("---"), Under("cmd_outputs_base", <<"ls.txt">>), Stamp>>,
       <<W("+++"), Under("cmd_outputs_after", <<"ls.txt">>), Stamp>>, <<W("@@")>> >>
    \o [i \in 1..Len(body) |-> BodyLines[body[i]]]

HunkBodies == UNION { [1..n -> 1..Len(BodyLines)] : n \in 0..MaxBody }

InitSynthesis ==
    /\ files = <<>>
    /\ config_path = None
    /\ pc = "compare"
    /\ loaded = Raised("none")
    /\ NoRun
    /\ \E body \in HunkBodies :
          \/ \E pre \in BOOLEAN, first \in {"text", "binary"},
                second \in {"none", "text", "binary", "type"} :
                args = Call("urN",
                            (IF pre THEN << <<W("-foo")>> >> ELSE <<>>)
                                \o FirstEntry(first, body) \o SecondEntry(second),
                            1, <<>>, <<>>)
          \/ args = Call("text", SingleText(body), 1, <<>>, <<>>)
    /\ ret = <<>>

\* Lines 204-216 (full mode) and 236-237 (single mode): the comparison and
\* what the report keeps of it
Synthesize ==
    /\ pc = "compare"
    /\ LET content == generate_diff_report(args).output
       IN  ret' = [ output |-> content,
                    entries |-> IF args.diff_type = "urN" THEN SplitEntries(content)
                                ELSE <<content>> ]
    /\ pc' = "compared"
    /\ UNCHANGED <<args, files, config_path, loaded, container_id, idx, polls, exc, report,
                   base_out, after_out, written, trace>>

NextSynthesis == Synthesize

SpecSynthesis == InitSynthesis /\ [][NextSynthesis]_vars

----------------------------------------------------------------------------
(* C22 *)

\* the place of the first header of a text, one past its end if it has none
FirstHeader(lines) ==
    IF \E i \in 1..Len(lines) : IsHeaderLine(lines[i])
    THEN CHOOSE i \in 1..Len(lines) :
             IsHeaderLine(lines[i]) /\ \A j \in 1..(i - 1) : ~IsHeaderLine(lines[j])
    ELSE Len(lines) + 1

FromFirstHeader(lines) == SubSeq(lines, FirstHeader(lines), Len(lines))

\* C22: in full mode without exclusion and omission patterns, the entries
\* of the report are, one after the other, the text of the comparison from
\* its first header on, every line in place (--- and +++ lines up to their
\* tab): each entry begins with a line that begins with a letter and holds
\* no other such line, so every other line is in the entry of the nearest
\* header before it, and the first and the last entry are there like any
\* other.
C22_EntriesLossless ==
    (pc = "compared" /\ args.diff_type = "urN") =>
        /\ ret.output = Sed(FromFirstHeader(args.stdout))
        /\ Flatten(ret.entries) = ret.output
        /\ \A i \in 1..Len(ret.entries) :
              /\ ret.entries[i] # <<>>
              /\ IsHeaderLine(ret.entries[i][1])
              /\ \A j \in 2..Len(ret.entries[i]) : ~IsHeaderLine(ret.entries[i][j])
        /\ Len(ret.entries) = Len(SelectSeq(args.stdout, IsHeaderLine))

\* a line before the first header, a text entry whose hunk holds an empty
\* line and a line beginning with a digit, and a last entry of one line:
\* two entries, the first with its six lines
C22_Witness ==
    /\ pc = "compared"
    /\ args.diff_type = "urN"
    /\ ~IsHeaderLine(args.stdout[1])
    /\ Len(ret.entries) = 2
    /\ Len(ret.entries[1]) = 6
    /\ SubSeq(ret.entries[1], 4, 6) = << <<W("@@")>>, <<>>, <<W("1c1")>> >>
    /\ ret.entries[2] = BinaryEntry(ToolPath)

----------------------------------------------------------------------------
(* C23 *)

\* the lines of the comparison that reach the output
KeptLines == IF args.diff_type = "urN" THEN FromFirstHeader(args.stdout) ELSE args.stdout

\* the --- and +++ lines that name the two files of an entry: after the
\* header of the entry in full mode, first in single mode
IsFileHeader(lines, i) ==
    \/ /\ lines[i][1] = W("---")
       /\ IF args.diff_type = "urN" THEN i > 1 /\ lines[i - 1][1] = W("diff") ELSE i = 1
    \/ /\ lines[i][1] = W("+++")
       /\ IF args.diff_type = "urN" THEN i > 2 /\ lines[i - 2][1] = W("diff") ELSE i = 2

\* C23 as stated: the lines that name the files of an entry lose their tab
\* and what follows it, and only they: every other line is in the output
\* as the comparison wrote it.
C23_OnlyFileHeadersStripped ==
    pc = "compared" =>
        /\ Len(ret.output) = Len(KeptLines)
        /\ \A i \in 1..Len(KeptLines) :
              KeptLines[i] # <<>> =>
                  ret.output[i] = IF IsFileHeader(KeptLines, i) THEN UpToStamp(KeptLines[i])
                                  ELSE KeptLines[i]

\* C23, what the code does: in full and in single mode every line whose
\* first word is --- or +++ loses its first tab and what follows it,
\* wherever the line stands - the lines that name the files of an entry,
\* and also a removed line that begins with "-- " and an added line that
\* begins with "++ "; every other line is unchanged.
C23_DashLinesStripped ==
    pc = "compared" =>
        /\ Len(ret.output) = Len(KeptLines)
        /\ \A i \in 1..Len(KeptLines) :
              LET line == KeptLines[i] out == ret.output[i] IN
              IF Len(line) >= 2 /\ line[1] \in {W("---"), W("+++")}
              THEN /\ IsPrefix(out, line)
                   /\ \A j \in 1..Len(out) : out[j] \notin TabWords
                   /\ Len(out) < Len(line) => line[Len(out) + 1] \in TabWords
              ELSE out = line

\* single mode, a removed line "-- q<tab>r": the output holds "--- q"
C23_Witness ==
    /\ pc = "compared"
    /\ args.diff_type = "text"
    /\ Len(args.stdout) = 4
    /\ args.stdout[4] = RemovedDashes
    /\ ret.output[4] = <<W("---"), W("q")>>
    /\ ret.output[1] = <<W("---"), Under("cmd_outputs_base", <<"ls.txt">>)>>

----------------------------------------------------------------------------
(* C24 *)

\* every document the requested one reaches is an existing, well-formed file
AllWellFormed == \A p \in Closure : Exists(p) /\ files[p].kind = "mapping"

\* C24: extends resolution detects no cycle.  When the documents the
\* requested one reaches through extends hold a cycle - a document that
\* extends itself, or two that extend each other - load_config returns no
\* configuration, and when all these documents exist and are well formed
\* it recurses until the nesting limit fails it.  When they exist, are well
\* formed and hold no cycle, load_config returns a configuration.
C24_CyclesNeverReturn ==
    pc = "loaded" =>
        /\ Cyclic => ~loaded.ok
        /\ (Cyclic /\ AllWellFormed) => loaded = Raised("RecursionError")
        /\ (~Cyclic /\ AllWellFormed) => loaded.ok

\* c.yaml extends base/p.yaml, which extends ../c.yaml: no configuration
C24_Witness ==
    /\ pc = "loaded"
    /\ Resolve(config_path) = PC
    /\ AllWellFormed
    /\ PP \in ExtTargets(PC)
    /\ PC \in ExtTargets(PP)
    /\ loaded = Raised("RecursionError")

\* g.yaml extends itself: no configuration
C24_WitnessSelf ==
    /\ pc = "loaded"
    /\ Resolve(config_path) = PG
    /\ PG \in ExtTargets(PG)
    /\ loaded = Raised("RecursionError")

----------------------------------------------------------------------------
(* _merge_dicts called on its own: analysis.py lines 16-32 *)

\* The values a key of the two mappings may hold, by number: scalars, lists,
\* mappings of scalars and lists, an empty mapping, a mapping in a mapping.
MergeValue(n) ==
    CASE n = 1 -> S("1")
      [] n = 2 -> S("2")
      [] n = 3 -> L(<<"a">>)
      [] n = 4 -> L(<<"b", "a">>)
      [] n = 5 -> D(("k" :> S("1")) @@ ("m" :> L(<<"a">>)))
      [] n = 6 -> D(("k" :> L(<<"c">>)) @@ ("n" :> S("2")))
      [] n = 7 -> D(("m" :> S("3")) @@ ("k" :> D(("j" :> L(<<"a">>)))))
      [] n = 8 -> D(("k" :> D(("j" :> L(<<"b">>)) @@ ("i" :> S("1")))))
      [] OTHER -> D(EmptyDict)

MergeKeys == {"x", "y"}

\* the mapping that holds value number f[key] at every key, none where f is 0
MergeDict(f) == [key \in {k \in MergeKeys : f[k] # 0} |-> MergeValue(f[key])]

InitMerge ==
    /\ files = <<>>
    /\ config_path = None
    /\ pc = "merge"
    /\ loaded = Raised("none")
    /\ NoRun
    /\ \E f \in [MergeKeys -> 0..9], g \in [MergeKeys -> 0..9] :
          args = [base |-> MergeDict(f), new |-> MergeDict(g)]
    /\ ret = <<>>

\* result = _merge_dicts(base, new)
MergeDicts ==
    /\ pc = "merge"
    /\ ret' = _merge_dicts(args.base, args.new)
    /\ pc' = "merged"
    /\ UNCHANGED <<args, files, config_path, loaded, container_id, idx, polls, exc, report,
                   base_out, after_out, written, trace>>

NextMerge == MergeDicts

SpecMerge == InitMerge /\ [][NextMerge]_vars

----------------------------------------------------------------------------
(* C25 *)

RECURSIVE MergedAs(_, _, _)
\* result is what the rule of C25 makes of base and new, key by key
MergedAs(result, base, new) ==
    /\ DOMAIN result = DOMAIN base \cup DOMAIN new
    /\ \A key \in DOMAIN result :
          IF key \notin DOMAIN new THEN result[key] = base[key]
          ELSE IF new[key].k = "list"
          THEN /\ result[key].k = "list"
               /\ result[key].v = IF IsList(base, key) THEN base[key].v \o new[key].v
                                  ELSE new[key].v
          ELSE IF new[key].k = "dict"
          THEN /\ result[key].k = "dict"
               /\ MergedAs(result[key].v,
                           IF IsDict(base, key) THEN base[key].v ELSE EmptyDict,
                           new[key].v)
          ELSE result[key].k = "scalar" /\ result[key].v = new[key].v

\* C25: the deep merge of new into base, for every combination of kinds at
\* a key: a list of new is appended to a list of base and set over anything
\* else or nothing; a mapping of new is merged, by the same rule, into a
\* mapping of base, and into an empty mapping over anything else or
\* nothing; a scalar of new replaces whatever base holds, list and mapping
\* included; a key of base that new does not hold keeps its value.
C25_MergeByKind ==
    pc = "merged" => MergedAs(ret, args.base, args.new)

\* at x a mapping is merged into a mapping, a list inside it appended and a
\* scalar inside it replaced by a list; at y a scalar replaces a mapping
C25_Witness ==
    /\ pc = "merged"
    /\ SameDict(args.base, MergeDict(("x" :> 5) @@ ("y" :> 6)))
    /\ SameDict(args.new, MergeDict(("x" :> 6) @@ ("y" :> 1)))
    /\ SameValue(ret["x"].v["k"], L(<<"c">>))
    /\ SameValue(ret["x"].v["m"], L(<<"a">>))
    /\ SameValue(ret["x"].v["n"], S("2"))
    /\ SameValue(ret["y"], S("1"))

\* a list is appended to a list, and a mapping is set over a list
C25_WitnessLists ==
    /\ pc = "merged"
    /\ SameDict(args.base, MergeDict(("x" :> 3) @@ ("y" :> 3)))
    /\ SameDict(args.new, MergeDict(("x" :> 4) @@ ("y" :> 7)))
    /\ SameValue(ret["x"], L(<<"a", "b", "a">>))
    /\ SameValue(ret["y"], MergeValue(7))

----------------------------------------------------------------------------
(* Configuration resolution on a diamond: c.yaml extends d.yaml and
   g.yaml, each of which may extend base/p.yaml *)

InitDiamond ==
    /\ \E c \in {RunNoTargets, BodyT, RunMinimal},
          d \in {BodyU, RunBase},
          g \in {BodyA, RunNoTargets},
          p \in {RunFull, BodyT, RunBase},
          dp \in BOOLEAN, gp \in BOOLEAN :
          files = (PC :> Mapping(Extends(L(<< <<"d.yaml">>, <<"..", "lib", "v1", "g.yaml">> >>)), c))
                  @@ (PD :> Mapping(IF dp THEN Extends(L(<< <<"base", "p.yaml">> >>))
                                    ELSE NoExtends, d))
                  @@ (PG :> Mapping(IF gp THEN Extends(S(<<"..", "..", "proj", "base", "p.yaml">>))
                                    ELSE NoExtends, g))
                  @@ (PP :> Mapping(NoExtends, p))
    /\ config_path = None
    /\ pc = "idle"
    /\ loaded = Raised("none")
    /\ RunIdle

SpecDiamond == InitDiamond /\ [][NextConfig]_vars

----------------------------------------------------------------------------
(* C26 *)

\* the lists load_config does not deduplicate
PlainLists ==
    { <<"prepare", "commands">>, <<"prepare", "copy_files">>, <<"command_diff">>,
      <<"main_operation", "commands">> }

\* the list a configuration holds under a key, or under a key of a mapping
ListAt(cfg, keys) ==
    IF Len(keys) = 1
    THEN IF IsList(cfg, keys[1]) THEN cfg[keys[1]].v ELSE <<>>
    ELSE IF IsDict(cfg, keys[1]) /\ IsList(cfg[keys[1]].v, keys[2])
         THEN cfg[keys[1]].v[keys[2]].v ELSE <<>>

\* its items; a copy_files entry by its dest, its src being rewritten
ItemsAt(cfg, keys) ==
    [i \in 1..Len(ListAt(cfg, keys)) |->
        IF keys = <<"prepare", "copy_files">> THEN ListAt(cfg, keys)[i].dest
        ELSE ListAt(cfg, keys)[i]]

OwnItems(path, keys) == ItemsAt(files[path].cfg, keys)

\* what arrives through the document at path: what it extends, then its own
ItemsVia(path, keys) ==
    (IF PP \in ExtTargets(path) THEN OwnItems(PP, keys) ELSE <<>>) \o OwnItems(path, keys)

Diamond == PP \in ExtTargets(PD) /\ PP \in ExtTargets(PG)

Occurrences(seq, x) == Cardinality({i \in 1..Len(seq) : seq[i] = x})

\* C26: a document reached through several paths of the extends graph is
\* resolved once on each path: the items it holds in prepare.commands,
\* prepare.copy_files, command_diff and main_operation.commands are in the
\* effective configuration once per path, in the order of the paths, so on
\* a diamond each of them is there at least twice; the items of the
\* deduplicated lists are there once.
C26_OncePerPath ==
    (pc = "loaded" /\ Resolve(config_path) = PC) =>
        /\ loaded.ok
        /\ \A keys \in PlainLists :
              /\ ItemsAt(loaded.cfg, keys)
                    = ItemsVia(PD, keys) \o ItemsVia(PG, keys) \o OwnItems(PC, keys)
              /\ Diamond => \A i \in 1..Len(OwnItems(PP, keys)) :
                    Occurrences(ItemsAt(loaded.cfg, keys), OwnItems(PP, keys)[i])
                        >= 2 * Occurrences(OwnItems(PP, keys), OwnItems(PP, keys)[i])
        /\ \A i \in 1..Len(DedupKeys) : NoDuplicates(ListAt(loaded.cfg, <<DedupKeys[i]>>))

\* base/p.yaml holds the commands p1 and p2, a command_diff entry for ls
\* and the main command m1; both d.yaml and g.yaml extend it: each is in
\* the effective configuration twice, /etc of target_dirs once
C26_Witness ==
    /\ pc = "loaded"
    /\ Resolve(config_path) = PC
    /\ Diamond
    /\ loaded.ok
    /\ OwnItems(PP, <<"prepare", "commands">>) = <<"p1", "p2">>
    /\ OwnItems(PC, <<"prepare", "commands">>) = <<>>
    /\ OwnItems(PD, <<"prepare", "commands">>) = <<"p0">>
    /\ ItemsAt(loaded.cfg, <<"prepare", "commands">>) = <<"p1", "p2", "p0", "p1", "p2">>
    /\ Occurrences(ItemsAt(loaded.cfg, <<"command_diff">>), CmdDiff("ls", <<"out", "ls.txt">>)) = 2
    /\ Occurrences(ItemsAt(loaded.cfg, <<"main_operation", "commands">>), "m1") = 2
    /\ Occurrences(ListAt(loaded.cfg, <<"target_dirs">>), "/etc") = 1

----------------------------------------------------------------------------
(* C27 *)

\* the capture files of the entries of command_diff that run the command
Outfiles(command) ==
    { Name(GetList("command_diff")[k].outfile) :
        k \in { j \in 1..Len(GetList("command_diff")) :
                  GetList("command_diff")[j].command = command } }

\* C27: a capture writes its file whatever the exit status of its command,
\* so when a run comes to its diffs both capture files of every
\* command_diff entry are there, and no entry of command_outputs, in a
\* report that is written or not, holds the reason for a skipped diff.
C27_NoSkipReason ==
    /\ \A i \in 1..Len(trace) :
          /\ trace[i].ev = "capture_base" =>
                \E name \in Outfiles(trace[i].arg) : name \in DOMAIN base_out
          /\ trace[i].ev = "capture_after" =>
                \E name \in Outfiles(trace[i].arg) : name \in DOMAIN after_out
    /\ pc \in {"diff_fs", "diff_cmd"} =>
          \A k \in 1..Len(GetList("command_diff")) : ~BaseMissing(k) /\ ~AfterMissing(k)
    /\ \A k \in 1..Len(report.command_outputs) :
          report.command_outputs[k].diff_content[1] = "diff"

\* a written report of two command diffs, after a baseline capture and an
\* after capture that exited non-zero
C27_Witness ==
    /\ pc = "done"
    /\ written = 1
    /\ \E i \in 1..Len(trace) : trace[i].ev = "capture_base" /\ trace[i].res = "nonzero"
    /\ \E i \in 1..Len(trace) : trace[i].ev = "capture_after" /\ trace[i].res = "nonzero"
    /\ Len(report.command_outputs) = 2
    /\ \A k \in 1..2 : report.command_outputs[k].diff_content[1] = "diff"

----------------------------------------------------------------------------
(* C28 *)

\* the entries of command_diff up to the n-th whose capture file has the
\* name of that of the k-th
SameFile(k, n) == { j \in 1..n : OutfileName(j) = OutfileName(k) }

Greatest(set) == CHOOSE j \in set : \A i \in set : i <= j

\* the command whose output the file of the k-th entry holds once the first
\* n entries are captured: that of the last of them that wrote to it
Holds(k, n) == GetList("command_diff")[Greatest(SameFile(k, n))].command

\* the captures made so far in the loop the run is in, all of them after it
Captured28(position) ==
    IF pc = position THEN idx - 1
    ELSE Len(GetList("command_diff"))

\* C28: the capture files are named by the final component of outfile.
\* Entries whose outfile ends in the same component write the same baseline
\* file and the same after file: each file holds the output of the command
\* of the last such entry captured, and the command_outputs entries of all
\* of them carry the one comparison of these two files.  An entry whose
\* final component no other entry has keeps the output of its own command.
C28_KeyedByFinalComponent ==
    /\ pc \in {"base_capture", "main", "after_export", "after_capture", "diff_fs", "diff_cmd"} =>
          \A k \in 1..Len(GetList("command_diff")) :
              LET n == Captured28("base_capture") IN
              IF SameFile(k, n) = {} THEN BaseMissing(k)
              ELSE base_out[OutfileName(k)] = Holds(k, n)
    /\ pc \in {"after_capture", "diff_fs", "diff_cmd"} =>
          \A k \in 1..Len(GetList("command_diff")) :
              LET n == Captured28("after_capture") IN
              IF SameFile(k, n) = {} THEN AfterMissing(k)
              ELSE after_out[OutfileName(k)] = Holds(k, n)
    /\ \A k \in 1..Len(report.command_outputs) :
          LET all == Len(GetList("command_diff")) IN
          /\ report.command_outputs[k].diff_content = <<"diff", Holds(k, all), Holds(k, all)>>
          /\ \A j \in 1..Len(report.command_outputs) :
                OutfileName(j) = OutfileName(k) =>
                    report.command_outputs[j].diff_content = report.command_outputs[k].diff_content
          /\ SameFile(k, all) = {k} =>
                report.command_outputs[k].diff_content =
                    <<"diff", report.command_outputs[k].command, report.command_outputs[k].command>>

\* out/ls.txt for ls and other/ls.txt for env: both entries of the written
\* report compare the output of env with the output of env
C28_Witness ==
    /\ pc = "done"
    /\ written = 1
    /\ Len(report.command_outputs) = 2
    /\ report.command_outputs[1].command = "ls"
    /\ report.command_outputs[1].diff_file = <<"out", "ls.txt">>
    /\ report.command_outputs[2].diff_file = <<"other", "ls.txt">>
    /\ report.command_outputs[1].diff_content = <<"diff", "env", "env">>
    /\ report.command_outputs[2].diff_content = <<"diff", "env", "env">>

----------------------------------------------------------------------------
(* C29 *)

CopyEvents == Events({"cp", "copy_skipped"})

\* the host path of the source of the k-th copy_files entry (lines 141-143)
CopySource(k) ==
    LET entry == GetSubList("prepare", "copy_files")[k]
    IN  IF IsAbsolute(entry.src) THEN entry.src ELSE Resolve(Join(RunRootDir, entry.src))

\* C29: the copy_files entries are taken in order, one step each: an entry
\* whose source is not on the host is logged as an error and no copy
\* command is issued for it, an entry whose source is there gets its copy
\* command.  After a skipped entry the run is not aborted: it goes on with
\* the next entry, or with the start of the container after the last one.
\* A copy command that fails aborts the run: nothing but the cleanup follows.
C29_MissingSourceSkipped ==
    /\ \A k \in 1..Len(CopyEvents) :
          /\ k <= Len(GetSubList("prepare", "copy_files"))
          /\ CopyEvents[k].arg = GetSubList("prepare", "copy_files")[k].dest
          /\ CopyEvents[k].ev = "copy_skipped" <=> ~HostExists(CopySource(k))
          /\ CopyEvents[k].ev = "copy_skipped" => LogLevel(CopyEvents[k]) = "error"
    /\ pc = "copy" => Len(CopyEvents) = idx - 1
    /\ \A i \in 1..Len(trace) :
          /\ trace[i].ev = "copy_skipped" =>
                IF i = Len(trace)
                THEN exc = "none" /\ pc \in {"copy", "start"}
                ELSE trace[i + 1].ev \in {"cp", "copy_skipped", "start"}
          /\ (trace[i].ev = "cp" /\ trace[i].res # "ok") =>
                /\ exc = RunChecked(trace[i].res)
                /\ written = 0
                /\ \A j \in (i + 1)..Len(trace) : trace[j].ev \in {"stop", "rm"}
    /\ (pc = "start" /\ ~NotAMapping("prepare")) =>
          Len(CopyEvents) = Len(GetSubList("prepare", "copy_files"))

\* f.txt is copied, gone.txt is not on the host and is skipped, the
\* container is started and the run ends with its report written
C29_Witness ==
    /\ pc = "done"
    /\ written = 1
    /\ Len(CopyEvents) = 2
    /\ CopyEvents[1] = Event("cp", "/d", "ok")
    /\ CopyEvents[2] = Event("copy_skipped", "/e", "missing")
    /\ \E i \in 1..Len(trace) : trace[i] = Event("start", "cid", "ok")

----------------------------------------------------------------------------
(* C30 *)

\* the report is handed to json.dump, or has been
ReportWritten == pc = "write" \/ written > 0

\* C30: a report that run_analysis writes is complete in shape.  Both
\* filesystem fields are lists, the list of differences or the one-line
\* skip reason when target_dirs is empty, never the initial null;
\* main_operation_results has one entry per configured main-operation
\* command, in the configured order; command_outputs has one entry per
\* command_diff entry, in the configured order, each with a diff_content
\* (a comparison or a skip reason); definitions has neither title nor
\* description.
C30_ReportComplete ==
    ReportWritten =>
       /\ report.started
       /\ report.filesystem_rq \in {"list", "skipped"}
       /\ report.filesystem_urN \in {"list", "skipped"}
       /\ GetList("target_dirs") = <<>> =>
             report.filesystem_rq = "skipped" /\ report.filesystem_urN = "skipped"
       /\ Len(report.main_operation_results) = Len(GetSubList("main_operation", "commands"))
       /\ \A i \in 1..Len(report.main_operation_results) :
             report.main_operation_results[i].command
                = GetSubList("main_operation", "commands")[i]
       /\ Len(report.command_outputs) = Len(GetList("command_diff"))
       /\ \A i \in 1..Len(report.command_outputs) :
             /\ report.command_outputs[i].command = GetList("command_diff")[i].command
             /\ report.command_outputs[i].diff_file = GetList("command_diff")[i].outfile
             /\ report.command_outputs[i].diff_content[1] \in {"diff", "skipped"}
       /\ "title" \notin report.definitions
       /\ "description" \notin report.definitions

\* a report written for a configuration with a title, two main-operation
\* commands, two command_diff entries and target directories
C30_Witness ==
    /\ written = 1
    /\ "title" \in DOMAIN loaded.cfg
    /\ report.filesystem_rq = "list"
    /\ Len(report.main_operation_results) = 2
    /\ report.main_operation_results[2].return_code = 1
    /\ Len(report.command_outputs) = 2

\* a report written for a configuration without target directories
C30_WitnessNoTargets ==
    /\ written = 1
    /\ GetList("target_dirs") = <<>>
    /\ report.filesystem_urN = "skipped"
    /\ Len(report.main_operation_results) >= 1
    /\ Len(report.command_outputs) >= 1

====
